---- MODULE Spec2Model ----
(***************************************************************************)
(* A model of the mailagent backend: the LM Studio gateway (call_llm), the *)
(* classifier (classify_email and its three sub-derivations), the reply    *)
(* draft manager (get_or_generate_responses over EmailDB) and the Gmail    *)
(* fetch-and-sync loop (sync_recent_emails, sync_historical_emails,        *)
(* sync_emails, sync_historical.sync_task).                                *)
(*                                                                         *)
(* Texts are sequences of one-character strings, so that strip(), lower()  *)
(* and replace() are computed character by character as Python does.       *)
(* An optional value is a sequence of length 0 (None) or 1.                *)
(***************************************************************************)
EXTENDS Integers, Sequences, FiniteSets, TLC

VARIABLES
    call,           \* call_llm: the frame of a direct call
    requests,       \* number of POSTs the endpoint has received from call
    slept,          \* the delays call has slept, in order
    outs,           \* what each POST of call ended in, in order
    email_data,     \* classify_email: the message being enriched
    llm,            \* call_llm: one frame per sub-derivation
    sub,            \* outcome of each sub-derivation of classify_email
    enriched,       \* outcome of classify_email (the gather)
    emails,         \* EmailDB: the rows of table emails
    responses,      \* EmailDB: the rows of table responses, in id order
    served,         \* per message, the last get_or_generate_responses call
                    \* completed since the last create or delete for it
    reply,          \* the get_or_generate_responses call that has just
                    \* completed, until the next operation on the store
    improved,       \* improve_response: the draft given and the outcome
    service,        \* GmailService.service is set (authenticated)
    sync,           \* per request handler, the sync invocation it runs
    sync_history,   \* EmailDB: the rows of table sync_history, in order
    invocations,    \* number of sync invocations started
    applied,        \* a text helper applied to an input, and its result
    throttle,       \* GmailService._rate_limit: the clock, the time of the
                    \* last request, and the threads that call the provider
    batch,          \* batch_classify: the list given, the position in it,
                    \* the calls in flight and the results so far
    sending         \* send_email_response: the request being served, and
                    \* the number of requests so far

varsGateway == <<call, requests, slept, outs>>

varsEnrich == <<email_data, llm, sub, enriched>>

varsStore == <<emails, responses>>

varsDrafts == <<served, reply, improved>>

varsSync == <<service, sync, sync_history, invocations>>

varsRest == <<applied, throttle, batch, sending>>

vars ==
    <<call, requests, slept, outs, email_data, llm, sub, enriched, emails,
      responses, served, reply, improved, service, sync, sync_history,
      invocations, applied, throttle, batch, sending>>

(***************************************************************************)
(* Python values                                                           *)
(***************************************************************************)
None == <<>>

Some(x) == <<x>>

Whitespace == {" ", "\n", "\t"}

\* str.lower() on the characters the model uses
LowerChar(c) ==
    CASE c = "H" -> "h"
      [] c = "I" -> "i"
      [] c = "G" -> "g"
      [] c = "L" -> "l"
      [] c = "O" -> "o"
      [] c = "W" -> "w"
      [] c = "P" -> "p"
      [] c = "U" -> "u"
      [] c = "M" -> "m"
      [] c = "N" -> "n"
      [] c = "C" -> "c"
      [] c = "A" -> "a"
      [] c = "B" -> "b"
      [] c = "D" -> "d"
      [] c = "E" -> "e"
      [] c = "F" -> "f"
      [] c = "J" -> "j"
      [] c = "K" -> "k"
      [] c = "Q" -> "q"
      [] c = "R" -> "r"
      [] c = "S" -> "s"
      [] c = "T" -> "t"
      [] c = "V" -> "v"
      [] c = "X" -> "x"
      [] c = "Y" -> "y"
      [] c = "Z" -> "z"
      [] OTHER -> c

Lower(s) == [i \in 1..Len(s) |-> LowerChar(s[i])]

RECURSIVE LStrip(_)
LStrip(s) ==
    IF s # <<>> /\ Head(s) \in Whitespace THEN LStrip(Tail(s)) ELSE s

RECURSIVE RStrip(_)
RStrip(s) ==
    IF s # <<>> /\ s[Len(s)] \in Whitespace
    THEN RStrip(SubSeq(s, 1, Len(s) - 1))
    ELSE s

\* str.strip()
Strip(s) == RStrip(LStrip(s))

\* str.replace(c, "") for a one-character c
Remove(s, c) == SelectSeq(s, LAMBDA x : x # c)

\* result.strip().lower().replace(".", "").replace(",", "")
NormalizeLabel(s) == Remove(Remove(Lower(Strip(s)), "."), ",")

(***************************************************************************)
(* Settings                                                                *)
(***************************************************************************)
W_high == <<"h", "i", "g", "h">>
W_medium == <<"m", "e", "d", "i", "u", "m">>
W_low == <<"l", "o", "w">>
W_professionnel == <<"p", "r", "o", "f", "e", "s", "s", "i", "o", "n", "n", "e", "l">>
W_personnel == <<"p", "e", "r", "s", "o", "n", "n", "e", "l">>
W_newsletter == <<"n", "e", "w", "s", "l", "e", "t", "t", "e", "r">>
W_notification == <<"n", "o", "t", "i", "f", "i", "c", "a", "t", "i", "o", "n">>
W_urgent == <<"u", "r", "g", "e", "n", "t">>
W_commercial == <<"c", "o", "m", "m", "e", "r", "c", "i", "a", "l">>
W_administratif == <<"a", "d", "m", "i", "n", "i", "s", "t", "r", "a", "t", "i", "f">>
\* the English spelling, which is not in settings.CATEGORIES
W_professional == <<"p", "r", "o", "f", "e", "s", "s", "i", "o", "n", "a", "l">>

IMPORTANCE_LEVELS == {W_high, W_medium, W_low}

CATEGORIES ==
    {W_professionnel, W_personnel, W_newsletter, W_notification, W_urgent,
     W_commercial, W_administratif}

(***************************************************************************)
(* The inference endpoint: what one POST can end in                        *)
(***************************************************************************)
\* contents the endpoint may put in choices[0].message.content
Texts ==
    { W_high,
      <<" ", "H", "i", "g", "h", ".", "\n">>,
      <<"L", "O", "W", ",">>,
      <<"h", ".", "i", "g", "h">>,
      <<"h", "i", " ", "g", "h">>,
      <<>>,
      W_urgent,
      <<"U", "r", "g", "e", "n", "t", ".">>,
      W_professional,
      <<" ", "P", "e", "r", "s", "o", "n", "n", "e", "l", " ">> }

\* "ok": 2xx with the expected fields; "timeout": httpx.TimeoutException;
\* "status": non-2xx (raise_for_status); "connect": httpx.ConnectError;
\* "malformed": 2xx whose payload lacks the fields (KeyError, IndexError);
\* "unparseable": 2xx whose body is not JSON (response.json() raises
\* JSONDecodeError) or is JSON of another shape (TypeError on indexing);
\* "other": any other exception of the attempt
Failures == {"timeout", "status", "connect", "malformed", "unparseable", "other"}

Outcomes ==
    [kind : {"ok"}, text : Texts] \cup [kind : Failures, text : {<<>>}]

(***************************************************************************)
(* llm_service.py: exceptions and call_llm                                 *)
(***************************************************************************)
\* LLMTimeoutError declared without its base class
IsLLMServiceError_TimeoutNotSubclass(cls) ==
    cls \in {"LLMServiceError", "LLMConnectionError"}

\* issubclass(cls, LLMServiceError)
IsLLMServiceError(cls) ==
    cls \in {"LLMServiceError", "LLMConnectionError", "LLMTimeoutError"}

\* range(3)
Attempts == 0..2

\* an off-by-one in the last-attempt test
IsLastAttempt_OffByOne(attempt) == attempt = 3

\* if attempt == 2
IsLastAttempt(attempt) == attempt = 2

RECURSIVE Pow2(_)
Pow2(n) == IF n = 0 THEN 1 ELSE 2 * Pow2(n - 1)

\* a backoff that starts at 2 ** attempt
Backoff_FromOne(attempt) == Pow2(attempt)

\* asyncio.sleep(2 ** (attempt + 1))
Backoff(attempt) == Pow2(attempt + 1)

Return(text) == [act |-> "return", text |-> text, cls |-> "", msg |-> "", delay |-> 0]

Raise(cls, msg) == [act |-> "raise", text |-> <<>>, cls |-> cls, msg |-> msg, delay |-> 0]

Sleep(delay) == [act |-> "sleep", text |-> <<>>, cls |-> "", msg |-> "", delay |-> delay]

\* except httpx.TimeoutException
OnTimeout(attempt) ==
    IF IsLastAttempt(attempt)
    THEN Raise("LLMTimeoutError", "timed out after self.timeout seconds")
    ELSE Sleep(Backoff(attempt))

\* a non-2xx response handled like the retryable errors
OnHTTPStatusError_Retried(attempt) ==
    IF IsLastAttempt(attempt)
    THEN Raise("LLMServiceError", "returned error")
    ELSE Sleep(Backoff(attempt))

\* except httpx.HTTPStatusError
OnHTTPStatusError(attempt) == Raise("LLMServiceError", "returned error")

\* a connection failure reported as a timeout
OnConnectError_AsTimeout(attempt) ==
    IF IsLastAttempt(attempt)
    THEN Raise("LLMTimeoutError", "timed out after self.timeout seconds")
    ELSE Sleep(Backoff(attempt))

\* except httpx.ConnectError
OnConnectError(attempt) ==
    IF IsLastAttempt(attempt)
    THEN Raise("LLMConnectionError", "cannot connect")
    ELSE Sleep(Backoff(attempt))

\* except (KeyError, IndexError)
OnKeyError(attempt) == Raise("LLMServiceError", "unexpected response format")

\* any other error of the last attempt reported as a connection failure
OnException_AsConnection(attempt) ==
    IF IsLastAttempt(attempt)
    THEN Raise("LLMConnectionError", "cannot connect")
    ELSE Sleep(Backoff(attempt))

\* except Exception
OnException(attempt) ==
    IF IsLastAttempt(attempt)
    THEN Raise("LLMServiceError", "unexpected error")
    ELSE Sleep(Backoff(attempt))

\* f"LM Studio request timed out after {self.timeout} seconds": the one
\* message that carries settings.LM_STUDIO_TIMEOUT
NamesTimeout(r) == r.msg = "timed out after self.timeout seconds"

\* the body of one iteration of the retry loop, given what the POST ended in
AttemptResult(attempt, out) ==
    CASE out.kind = "ok" -> Return(out.text)
      [] out.kind = "timeout" -> OnTimeout(attempt)
      [] out.kind = "status" -> OnHTTPStatusError(attempt)
      [] out.kind = "connect" -> OnConnectError(attempt)
      [] out.kind = "malformed" -> OnKeyError(attempt)
      [] OTHER -> OnException(attempt)

\* a call_llm frame: pc is "idle", "post" (about to send attempt), "sleep"
\* (in asyncio.sleep) or "done"; ret is what the last iteration ended in
IdleFrame == [pc |-> "idle", attempt |-> 0, ret |-> Sleep(0)]

\* the frame after the POST of f.attempt ended in out
FrameAfterPost(f, out) ==
    LET r == AttemptResult(f.attempt, out)
    IN  [f EXCEPT !.ret = r,
                  !.pc = IF r.act = "sleep" THEN "sleep" ELSE "done"]

\* the frame after asyncio.sleep returned: the next iteration of range(3), or
\* the statement after the loop
FrameAfterSleep(f) ==
    IF f.attempt + 1 \in Attempts
    THEN [f EXCEPT !.attempt = @ + 1, !.pc = "post"]
    ELSE [f EXCEPT !.ret = Raise("LLMServiceError", "failed after 3 attempts"),
                   !.pc = "done"]

\* a caller enters call_llm
Call ==
    /\ call.pc = "idle"
    /\ call' = [call EXCEPT !.pc = "post"]
    /\ UNCHANGED <<requests, slept, outs, varsEnrich, varsStore, varsDrafts, varsSync,
                   varsRest>>

\* one iteration of the loop: client.post and the handling of what it ended in
Post ==
    /\ call.pc = "post"
    /\ \E out \in Outcomes :
          /\ call' = FrameAfterPost(call, out)
          /\ outs' = Append(outs, out.kind)
    /\ requests' = requests + 1
    /\ UNCHANGED <<slept, varsEnrich, varsStore, varsDrafts, varsSync, varsRest>>

\* await asyncio.sleep(...) returns
BackoffOver ==
    /\ call.pc = "sleep"
    /\ slept' = Append(slept, call.ret.delay)
    /\ call' = FrameAfterSleep(call)
    /\ UNCHANGED <<requests, outs, varsEnrich, varsStore, varsDrafts, varsSync,
                   varsRest>>

IdleGateway ==
    /\ call = IdleFrame
    /\ requests = 0
    /\ slept = <<>>
    /\ outs = <<>>

IdleEnrich ==
    /\ email_data = [body_text |-> "", snippet |-> ""]
    /\ llm = <<>>
    /\ sub = <<>>
    /\ enriched = <<>>

IdleStore ==
    /\ emails = {}
    /\ responses = <<>>

IdleDrafts ==
    /\ served = <<>>
    /\ reply = <<>>
    /\ improved = <<>>

IdleSync ==
    /\ service = FALSE
    /\ sync = <<>>
    /\ sync_history = <<>>
    /\ invocations = 0

IdleRest ==
    /\ applied = <<>>
    /\ throttle = <<>>
    /\ batch = <<>>
    /\ sending = <<>>

InitGateway ==
    IdleGateway /\ IdleEnrich /\ IdleStore /\ IdleDrafts /\ IdleSync /\ IdleRest

NextGateway == Call \/ Post \/ BackoffOver

SpecGateway == InitGateway /\ [][NextGateway]_vars

(***************************************************************************)
(* classifier.py: the three sub-derivations and classify_email             *)
(***************************************************************************)
Tasks == {"importance", "category", "summary"}

Pending == [state |-> "pending", val |-> <<>>, cls |-> ""]

Running == [state |-> "running", val |-> <<>>, cls |-> ""]

Returned(v) == [state |-> "returned", val |-> v, cls |-> ""]

Raised(cls) == [state |-> "raised", val |-> <<>>, cls |-> cls]

\* a sub-derivation's "except LLMServiceError" clause: the handler's value if
\* the exception is caught, the exception itself otherwise
ExceptLLMServiceError(r, default) ==
    IF IsLLMServiceError(r.cls) THEN Returned(default) ELSE Raised(r.cls)

\* classify_importance without the membership test
classify_importance_Unchecked(r) ==
    IF r.act = "return"
    THEN Returned(NormalizeLabel(r.text))
    ELSE ExceptLLMServiceError(r, W_medium)

\* classify_importance, from the point where call_llm has ended in r
classify_importance(r) ==
    IF r.act = "return"
    THEN LET result == NormalizeLabel(r.text)
         IN  IF result \notin IMPORTANCE_LEVELS
             THEN Returned(W_medium)
             ELSE Returned(result)
    ELSE ExceptLLMServiceError(r, W_medium)

\* classify_category without the membership test
classify_category_Unchecked(r) ==
    IF r.act = "return"
    THEN Returned(NormalizeLabel(r.text))
    ELSE ExceptLLMServiceError(r, W_professionnel)

\* classify_category, from the point where call_llm has ended in r
classify_category(r) ==
    IF r.act = "return"
    THEN LET result == NormalizeLabel(r.text)
         IN  IF result \notin CATEGORIES
             THEN Returned(W_professionnel)
             ELSE Returned(result)
    ELSE ExceptLLMServiceError(r, W_professionnel)

\* generate_summary, from the point where call_llm has ended in r
generate_summary(r) ==
    IF r.act = "return"
    THEN Returned(Some(Strip(r.text)))
    ELSE ExceptLLMServiceError(r, None)

\* an early return that looks at body_text only
SummarySkipped_BodyOnly(e) == e.body_text = ""

\* generate_summary's early return: neither body_text nor snippet
SummarySkipped(e) == e.body_text = "" /\ e.snippet = ""

Derive(t, r) ==
    CASE t = "importance" -> classify_importance(r)
      [] t = "category" -> classify_category(r)
      [] OTHER -> generate_summary(r)

\* messages classify_email may be given
EmailInputs == [body_text : {"", "body"}, snippet : {"", "snip"}]

NotEnriched == [state |-> "running", importance |-> <<>>, category |-> <<>>,
                ai_summary |-> <<>>, cls |-> ""]

\* asyncio.gather schedules sub-derivation t: it runs up to its first await
StartTask(t) ==
    /\ enriched.state = "running"
    /\ sub[t].state = "pending"
    /\ IF t = "summary" /\ SummarySkipped(email_data)
       THEN /\ sub' = [sub EXCEPT ![t] = Returned(None)]
            /\ UNCHANGED llm
       ELSE /\ sub' = [sub EXCEPT ![t] = Running]
            /\ llm' = [llm EXCEPT ![t].pc = "post"]
    /\ UNCHANGED <<email_data, enriched, varsGateway, varsStore, varsDrafts, varsSync,
                   varsRest>>

\* one iteration of call_llm's loop in sub-derivation t: the POST and the
\* handling of what it ended in; when call_llm ends, so does the
\* sub-derivation
SendRequest(t) ==
    /\ llm[t].pc = "post"
    /\ \E out \in Outcomes :
          LET f == FrameAfterPost(llm[t], out)
          IN  /\ llm' = [llm EXCEPT ![t] = f]
              /\ sub' = IF f.pc = "done"
                        THEN [sub EXCEPT ![t] = Derive(t, f.ret)]
                        ELSE sub
    /\ UNCHANGED <<email_data, enriched, varsGateway, varsStore, varsDrafts, varsSync,
                   varsRest>>

\* the backoff sleep of sub-derivation t's call_llm is over
WakeUp(t) ==
    /\ llm[t].pc = "sleep"
    /\ LET f == FrameAfterSleep(llm[t])
       IN  /\ llm' = [llm EXCEPT ![t] = f]
           /\ sub' = IF f.pc = "done"
                     THEN [sub EXCEPT ![t] = Derive(t, f.ret)]
                     ELSE sub
    /\ UNCHANGED <<email_data, enriched, varsGateway, varsStore, varsDrafts, varsSync,
                   varsRest>>

\* await asyncio.gather(...) in classify_email: the first exception of a
\* sub-derivation propagates at once, otherwise the triple is returned when
\* the three have returned
GatherReady ==
    \/ \E t \in Tasks : sub[t].state = "raised"
    \/ \A t \in Tasks : sub[t].state = "returned"

\* a gather that falls back on every default as soon as one call has failed
GatherResult_AllOrNothing ==
    IF \E t \in Tasks : llm[t].pc = "done" /\ llm[t].ret.act = "raise"
    THEN [state |-> "returned", importance |-> W_medium,
          category |-> W_professionnel, ai_summary |-> None, cls |-> ""]
    ELSE [state |-> "returned",
          importance |-> sub["importance"].val,
          category |-> sub["category"].val,
          ai_summary |-> sub["summary"].val,
          cls |-> ""]

GatherResult ==
    IF \E t \in Tasks : sub[t].state = "raised"
    THEN [NotEnriched EXCEPT
              !.state = "raised",
              !.cls = sub[CHOOSE t \in Tasks : sub[t].state = "raised"].cls]
    ELSE [state |-> "returned",
          importance |-> sub["importance"].val,
          category |-> sub["category"].val,
          ai_summary |-> sub["summary"].val,
          cls |-> ""]

ClassifyEmailEnds ==
    /\ enriched.state = "running"
    /\ GatherReady
    /\ enriched' = GatherResult
    /\ UNCHANGED <<email_data, llm, sub, varsGateway, varsStore, varsDrafts, varsSync,
                   varsRest>>

InitEnrich ==
    /\ IdleGateway
    /\ IdleRest
    /\ IdleStore
    /\ IdleDrafts
    /\ IdleSync
    /\ email_data \in EmailInputs
    /\ llm = [t \in Tasks |-> IdleFrame]
    /\ sub = [t \in Tasks |-> Pending]
    /\ enriched = NotEnriched

NextEnrich ==
    \/ \E t \in Tasks : StartTask(t)
    \/ \E t \in Tasks : SendRequest(t)
    \/ \E t \in Tasks : WakeUp(t)
    \/ ClassifyEmailEnds

SpecEnrich == InitEnrich /\ [][NextEnrich]_vars

(***************************************************************************)
(* database.py: EmailDB                                                    *)
(***************************************************************************)
\* provider message identifiers
MessageIds == {"m1", "m2"}

\* a value EmailDB hands out as a plain dict, and one handed out as an ORM
\* instance; reading an attribute (x.name) of a dict raises AttributeError
AsDict(row) == [type |-> "dict", item |-> row]

AsObject(row) == [type |-> "object", item |-> row]

HasAttributes(v) == v.type = "object"

StoredIds == {e.id : e \in emails}

\* a lookup that finds nothing
get_email_NeverFound(email_id) == None

\* EmailDB.get_email: None, or the row converted to a dict
get_email(email_id) ==
    IF email_id \in StoredIds
    THEN Some(AsDict(CHOOSE e \in emails : e.id = email_id))
    ELSE None

\* EmailDB.list_emails: the rows that pass the filters given ("" or <<>> for
\* a filter left out), as dicts; at most two rows are ever stored, fewer
\* than limit
list_emails(status, importance, category) ==
    {AsDict(e) : e \in
        {x \in emails :
            /\ status # "" => x.status = status
            /\ importance # <<>> => x.importance = importance
            /\ category # <<>> => x.category = category}}

\* the row create_email builds from a parsed (and possibly classified) message
EmailRow(data) ==
    [id |-> data.id, importance |-> data.importance, category |-> data.category,
     ai_summary |-> data.ai_summary, status |-> "unread"]

\* create_email without the primary key on emails.id
create_email_NoPrimaryKey(data) ==
    [ok |-> TRUE, emails |-> emails \cup {EmailRow(data)}]

\* EmailDB.create_email: the INSERT fails (IntegrityError, rolled back) when
\* a row with this primary key exists
create_email(data) ==
    IF data.id \in StoredIds
    THEN [ok |-> FALSE, emails |-> emails]
    ELSE [ok |-> TRUE, emails |-> emails \cup {EmailRow(data)}]

\* EmailDB.get_responses: the rows of the message as dicts
get_responses(email_id) ==
    LET rows == SelectSeq(responses, LAMBDA r : r.email_id = email_id)
    IN  [i \in 1..Len(rows) |-> AsDict(rows[i])]

\* the integer primary key the next INSERT into responses gets
NextResponseId ==
    IF responses = <<>> THEN 1 ELSE responses[Len(responses)].id + 1

TONES == <<"formal", "casual", "neutral">>

\* the largest response id the model lets the store hand out
MaxResponses == 3

\* a parsed message that comes with labels of its own
PlainMessage_Labelled(id) ==
    [id |-> id, importance |-> W_medium, category |-> W_professionnel,
     ai_summary |-> None]

\* a message that has no enrichment, as sync stores it with classify off
PlainMessage(id) ==
    [id |-> id, importance |-> None, category |-> None, ai_summary |-> None]

ForgetServed(email_id) == [served EXCEPT ![email_id] = None]

\* db.create_email(email_data), as the sync loop calls it for a new message
DbCreateEmail(id) ==
    /\ create_email(PlainMessage(id)).ok
    /\ emails' = create_email(PlainMessage(id)).emails
    /\ served' = ForgetServed(id)
    /\ reply' = None
    /\ UNCHANGED <<responses, improved, varsGateway, varsEnrich, varsSync, varsRest>>

\* EmailDB.delete_email
DbDeleteEmail(id) ==
    /\ id \in StoredIds
    /\ emails' = {e \in emails : e.id # id}
    /\ served' = ForgetServed(id)
    /\ reply' = None
    /\ UNCHANGED <<responses, improved, varsGateway, varsEnrich, varsSync, varsRest>>

\* EmailDB.save_response
DbSaveResponse(email_id, variant_number, tone) ==
    /\ NextResponseId <= MaxResponses
    /\ responses' =
          Append(responses,
                 [id |-> NextResponseId, email_id |-> email_id,
                  variant_number |-> variant_number, tone |-> tone,
                  sent |-> FALSE])
    /\ reply' = None
    /\ UNCHANGED <<emails, served, improved, varsGateway, varsEnrich, varsSync,
                   varsRest>>

\* EmailDB.mark_response_sent
DbMarkResponseSent(response_id) ==
    /\ \E i \in 1..Len(responses) :
          /\ responses[i].id = response_id
          /\ ~responses[i].sent
          /\ responses' = [responses EXCEPT ![i].sent = TRUE]
    /\ reply' = None
    /\ UNCHANGED <<emails, served, improved, varsGateway, varsEnrich, varsSync,
                   varsRest>>

\* EmailDB.delete_unsent_responses
DbDeleteUnsentResponses(email_id) ==
    /\ responses' =
          SelectSeq(responses, LAMBDA r : ~(r.email_id = email_id /\ ~r.sent))
    /\ served' = ForgetServed(email_id)
    /\ served' # served \/ responses' # responses
    /\ reply' = None
    /\ UNCHANGED <<emails, improved, varsGateway, varsEnrich, varsSync, varsRest>>

(***************************************************************************)
(* response_generator.py: generate_responses, improve_response and         *)
(* get_or_generate_responses                                               *)
(***************************************************************************)
\* the backquote character, written as ' (a TLA+ string cannot hold it)
Tick == "'"

\* the code fences _parse_response_json removes
Fence == <<Tick, Tick, Tick>>

FenceJson == Fence \o <<"j", "s", "o", "n">>

StartsWith(s, p) == Len(s) >= Len(p) /\ SubSeq(s, 1, Len(p)) = p

EndsWith(s, p) == Len(s) >= Len(p) /\ SubSeq(s, Len(s) - Len(p) + 1, Len(s)) = p

\* s[n:]
DropFirst(s, n) == SubSeq(s, n + 1, Len(s))

\* s[:-n]
DropLast(s, n) == SubSeq(s, 1, Len(s) - n)

\* str.find(c) and str.rfind(c) for a one-character c, as 1-based positions
\* (0 where Python gives -1)
Find(s, c) ==
    IF \E i \in 1..Len(s) : s[i] = c
    THEN CHOOSE i \in 1..Len(s) : s[i] = c /\ \A k \in 1..(i - 1) : s[k] # c
    ELSE 0

RFind(s, c) ==
    IF \E i \in 1..Len(s) : s[i] = c
    THEN CHOOSE i \in 1..Len(s) : s[i] = c /\ \A k \in (i + 1)..Len(s) : s[k] # c
    ELSE 0

W_true == <<"t", "r", "u", "e">>
W_false == <<"f", "a", "l", "s", "e">>
W_null == <<"n", "u", "l", "l">>

\* json.loads on texts written with letters, whitespace, ".", ",", Tick, "{"
\* and "}": the only JSON documents over these characters are the object {}
\* and the literals true, false and null; "dict", "scalar", or "error" for
\* JSONDecodeError
json_loads(s) ==
    LET t == Strip(s)
    IN  IF /\ Len(t) >= 2
           /\ t[1] = "{"
           /\ t[Len(t)] = "}"
           /\ \A i \in 2..(Len(t) - 1) : t[i] \in Whitespace
        THEN "dict"
        ELSE IF t \in {W_true, W_false, W_null} THEN "scalar" ELSE "error"

\* the fallback text every variant missing from the parsed object gets
Placeholder == "Thank you for your email."

\* _parse_response_json: the three variants, or the exception it raises
\* ("key in parsed" raises TypeError when parsed is True, False or None)
_parse_response_json(response_text) ==
    LET c1 == Strip(response_text)
        c2 == IF StartsWith(c1, FenceJson) THEN DropFirst(c1, 7) ELSE c1
        c3 == IF StartsWith(c2, Fence) THEN DropFirst(c2, 3) ELSE c2
        c4 == IF EndsWith(c3, Fence) THEN DropLast(c3, 3) ELSE c3
        response_clean == Strip(c4)
        start == Find(response_clean, "{")
        end == RFind(response_clean, "}")
        parsed ==
            IF json_loads(response_clean) # "error"
            THEN json_loads(response_clean)
            ELSE IF start >= 1 /\ end > start
                 THEN json_loads(SubSeq(response_clean, start, end))
                 ELSE "error"
    IN  CASE parsed = "dict" ->
                [ok |-> TRUE, cls |-> "",
                 variants |-> <<Placeholder, Placeholder, Placeholder>>]
          [] parsed = "scalar" ->
                [ok |-> FALSE, cls |-> "TypeError", variants |-> <<>>]
          [] OTHER ->
                [ok |-> FALSE, cls |-> "JSONDecodeError", variants |-> <<>>]

\* generate_responses, from the point where call_llm has ended in r: both
\* except clauses re-raise
generate_responses(r) ==
    IF r.act = "raise"
    THEN [ok |-> FALSE, cls |-> r.cls, variants |-> <<>>]
    ELSE _parse_response_json(r.text)

\* improve_response that lets the Gateway error through
improve_response_Reraised(draft, r) ==
    IF r.act = "return" THEN Returned(Strip(r.text)) ELSE Raised(r.cls)

\* improve_response, from the point where call_llm has ended in r
improve_response(draft, r) ==
    IF r.act = "return"
    THEN Returned(Strip(r.text))
    ELSE ExceptLLMServiceError(r, draft)

\* the list comprehension over existing: it reads r.id, r.variant_number, ...
ExistingAsList(existing) ==
    [i \in 1..Len(existing) |->
        [id |-> existing[i].item.id,
         variant_number |-> existing[i].item.variant_number,
         tone |-> existing[i].item.tone,
         sent |-> existing[i].item.sent]]

\* the row db.save_response(email_id, i, content, tone) inserts as the k-th
\* row of this call
SavedRow(email_id, i, k) ==
    [id |-> NextResponseId + k - 1, email_id |-> email_id,
     variant_number |-> i, tone |-> TONES[i], sent |-> FALSE]

\* what a get_or_generate_responses call ended in: observed is the number of
\* drafts get_responses gave it, endpoint what call_llm ends in for its
\* generation request, rows the rows it inserted
Reply(email_id, r, outcome, cls, drafts, llm_calls, rows) ==
    [email_id |-> email_id, stored |-> email_id \in StoredIds,
     observed |-> Len(get_responses(email_id)), endpoint |-> r,
     outcome |-> outcome, cls |-> cls, drafts |-> drafts,
     llm_calls |-> llm_calls, saved |-> Len(rows), rows |-> rows,
     prev |-> served[email_id]]

\* the loop over responses_dict.items(): save_response returns a dict, and
\* the code reads response.id of the first one
SaveLoop(email_id, r, variants) ==
    LET rows == [i \in 1..Len(variants) |-> SavedRow(email_id, i, i)]
    IN  IF HasAttributes(AsDict(rows[1]))
        THEN Reply(email_id, r, "returned", "",
                   [i \in 1..Len(rows) |->
                       [id |-> rows[i].id, variant_number |-> i,
                        tone |-> rows[i].tone, sent |-> rows[i].sent]],
                   1, rows)
        ELSE Reply(email_id, r, "raised", "AttributeError", <<>>, 1,
                   SubSeq(rows, 1, 1))

\* get_or_generate_responses, where call_llm ends in r if the generation
\* request is made: "returned" with drafts, or "raised" with the exception
get_or_generate_responses(email_id, r) ==
    LET existing == get_responses(email_id)
        email == get_email(email_id)
        generated == generate_responses(r)
    IN  IF existing # <<>>
        THEN IF \A i \in 1..Len(existing) : HasAttributes(existing[i])
             THEN Reply(email_id, r, "returned", "", ExistingAsList(existing),
                        0, <<>>)
             ELSE Reply(email_id, r, "raised", "AttributeError", <<>>, 0, <<>>)
        ELSE IF email = None
             THEN Reply(email_id, r, "raised", "ValueError", <<>>, 0, <<>>)
             ELSE IF ~HasAttributes(email[1])
                  THEN Reply(email_id, r, "raised", "AttributeError", <<>>,
                             0, <<>>)
                  ELSE IF ~generated.ok
                       THEN Reply(email_id, r, "raised", generated.cls, <<>>,
                                  1, <<>>)
                       ELSE SaveLoop(email_id, r, generated.variants)

\* contents the endpoint may return for a generation or revision request
Contents ==
    { <<"{", "}">>,
      <<"o", "k", " ", "{", "}", ".">>,
      <<" ", "o", "k", " ">> }

\* what call_llm can end in for such a request: a content, or the error of
\* a third attempt
CallResults ==
    {Return(t) : t \in Contents}
        \cup {AttemptResult(2, [kind |-> k, text |-> <<>>]) :
                 k \in {"timeout", "connect", "status"}}

\* GET /api/emails/{email_id}/responses: one call of
\* get_or_generate_responses
GetOrGenerateResponses(email_id, r) ==
    LET result == get_or_generate_responses(email_id, r)
    IN  /\ NextResponseId + result.saved - 1 <= MaxResponses
        /\ reply' = Some(result)
        /\ responses' = responses \o result.rows
        /\ served' = [served EXCEPT ![email_id] =
                         Some([outcome |-> result.outcome,
                               drafts |-> result.drafts,
                               llm_calls |-> result.llm_calls])]
        /\ reply' # reply \/ served' # served
        /\ UNCHANGED <<emails, improved, varsGateway, varsEnrich, varsSync, varsRest>>

InitDrafts ==
    /\ IdleGateway
    /\ IdleRest
    /\ IdleEnrich
    /\ IdleSync
    /\ emails = {}
    /\ responses = <<>>
    /\ served = [id \in MessageIds |-> None]
    /\ reply = None
    /\ improved = None

NextDrafts ==
    \/ \E id \in MessageIds : DbCreateEmail(id)
    \/ \E id \in MessageIds : DbDeleteEmail(id)
    \/ \E id \in MessageIds, v \in 1..2 : DbSaveResponse(id, v, TONES[v])
    \/ \E rid \in 1..MaxResponses : DbMarkResponseSent(rid)
    \/ \E id \in MessageIds : DbDeleteUnsentResponses(id)
    \/ \E id \in MessageIds, r \in CallResults : GetOrGenerateResponses(id, r)

SpecDrafts == InitDrafts /\ [][NextDrafts]_vars

\* drafts a caller may hand to improve_response
Drafts == {W_low, <<" ", "o", "k", " ", "\n">>}

\* improve_response(email_data, draft, feedback) is called and enters
\* call_llm
ImproveResponse(draft) ==
    /\ improved = None
    /\ call.pc = "idle"
    /\ call' = [call EXCEPT !.pc = "post"]
    /\ improved' = Some([draft |-> draft, out |-> Running])
    /\ UNCHANGED <<requests, slept, outs, served, reply, varsEnrich, varsStore,
                   varsSync, varsRest>>

\* call_llm has ended: result.strip() is returned, or the except clause runs
ImproveResponseEnds ==
    /\ improved # None
    /\ improved[1].out = Running
    /\ call.pc = "done"
    /\ improved' = Some([improved[1] EXCEPT
                            !.out = improve_response(improved[1].draft, call.ret)])
    /\ UNCHANGED <<served, reply, varsGateway, varsEnrich, varsStore, varsSync,
                   varsRest>>

NextImprove ==
    \/ \E draft \in Drafts : ImproveResponse(draft)
    \/ Post
    \/ BackoffOver
    \/ ImproveResponseEnds

SpecImprove == InitGateway /\ [][NextImprove]_vars

(***************************************************************************)
(* gmail_service.py and main.py: the fetch-and-sync loop                   *)
(***************************************************************************)
\* the two request handlers that can run a sync at the same time
Syncs == {"a", "b"}

Modes == {"recent", "historical"}

\* the most sync invocations in one behaviour
MaxSyncs == 2

\* the most messages the provider lists on one page
MaxPageSize == 2

\* the most pages the provider has for a historical query
MaxPages == 2

\* results.get("messages", []): the identifiers of one page
Listings == UNION {[1..n -> MessageIds] : n \in 0..MaxPageSize}

\* what a messages().list().execute() can end in
ListResponses == {"ok", "rate_limit", "http_error", "error"}

\* what messages().get().execute() followed by _parse_message can end in
GetResponses == {"ok", "parse_error", "rate_limit", "http_error", "error"}

\* the triple classify_email returns (SpecEnrich covers the values it takes;
\* the sync loop only copies it into the row)
Enrichments ==
    { [importance |-> W_high, category |-> W_urgent, ai_summary |-> Some(W_low)] }

\* a provider exchange: the request, the page token or message identifier
\* it carries, how it ended, and whether the page came with a nextPageToken
NoExchange == [req |-> "", target |-> "", resp |-> "", more |-> FALSE]

\* the nextPageToken the provider puts on page k of a query that has more
PageToken(k) ==
    CASE k = 1 -> "t1"
      [] k = 2 -> "t2"
      [] k = 3 -> "t3"
      [] OTHER -> "t4"

\* a handler that runs no sync; page_token is the local of that name ("" for
\* None), next_token the nextPageToken of the page being worked on ("" when
\* it has none), pages the number of pages received; last is the provider
\* exchange the gmail_service code is dealing with; listed, failed and
\* skipped count the messages the provider listed, those whose fetch or
\* parse failed, and those found already stored
IdleSyncFrame ==
    [pc |-> "idle", run |-> 0, mode |-> "recent", classify |-> FALSE,
     messages |-> <<>>, i |-> 1, page_token |-> "", next_token |-> "",
     pages |-> 0,
     emails_data |-> <<>>, j |-> 1, current |-> PlainMessage(""),
     processed_count |-> 0, errors |-> <<>>, error |-> "",
     last |-> NoExchange, delay |-> 0, resume |-> "",
     listed |-> 0, failed |-> 0, skipped |-> 0]

Running_(f) == f.pc \notin {"idle", "done", "failed"}

\* time.sleep(5) in sync_recent_emails, time.sleep(10) in sync_historical_emails
RecentCooldown == 5

HistoricalCooldown == 10

\* the gmail_service call raises: in sync_emails an HTTPException follows, in
\* sync_task a log line; log_sync is not reached
Failed(f, cls) ==
    [f EXCEPT !.pc = "failed", !.error = cls, !.messages = <<>>]

\* a handler that stores the first message without looking it up
ReturnEmails_NoLookup(f) ==
    [f EXCEPT !.pc = IF f.emails_data = <<>> THEN "check" ELSE "create",
              !.j = 1, !.messages = <<>>, !.i = 1,
              !.current = IF f.emails_data = <<>> THEN @
                          ELSE PlainMessage(f.emails_data[1]),
              !.page_token = "", !.next_token = ""]

\* the gmail_service call returns emails_data to its caller in main.py
ReturnEmails(f) ==
    [f EXCEPT !.pc = "check", !.j = 1, !.messages = <<>>, !.i = 1,
              !.page_token = "", !.next_token = ""]

\* a loop that lists again without taking the new token
NextMessage_StaleToken(f) ==
    IF f.i < Len(f.messages)
    THEN [f EXCEPT !.pc = "get", !.i = @ + 1]
    ELSE IF f.mode = "historical" /\ f.next_token # ""
         THEN [f EXCEPT !.pc = "list", !.messages = <<>>, !.i = 1,
                        !.next_token = ""]
         ELSE ReturnEmails(f)

\* the for loop over messages goes to its next element; after the last one
\* sync_recent_emails returns, sync_historical_emails does
\* page_token = result.get("nextPageToken") and leaves the loop without one
NextMessage(f) ==
    IF f.i < Len(f.messages)
    THEN [f EXCEPT !.pc = "get", !.i = @ + 1]
    ELSE IF f.mode = "historical" /\ f.next_token # ""
         THEN [f EXCEPT !.pc = "list", !.messages = <<>>, !.i = 1,
                        !.page_token = f.next_token, !.next_token = ""]
         ELSE ReturnEmails(f)

\* time.sleep(delay), after which the code goes on as g
Cooldown(g, delay) ==
    [g EXCEPT !.resume = g.pc, !.pc = "sleep", !.delay = delay]

\* sync_recent_emails: messages().list() ended in resp; a nextPageToken in
\* results is never read
recent_list(f, resp, msgs) ==
    CASE resp = "ok" ->
            IF msgs = <<>>
            THEN ReturnEmails(f)
            ELSE [f EXCEPT !.pc = "get", !.messages = msgs, !.i = 1,
                           !.pages = @ + 1, !.listed = @ + Len(msgs)]
      [] resp = "rate_limit" -> Failed(f, "GmailQuotaError")
      [] OTHER -> Failed(f, "GmailServiceError")

\* a historical sync that returns the pages it has when a list request fails
historical_list_KeepsPages(f, resp, msgs, more) ==
    CASE resp = "ok" ->
            IF msgs = <<>>
            THEN ReturnEmails(f)
            ELSE [f EXCEPT !.pc = "get", !.messages = msgs, !.i = 1,
                           !.next_token = IF more THEN PageToken(f.pages + 1)
                                          ELSE "",
                           !.pages = @ + 1,
                           !.listed = @ + Len(msgs)]
      [] resp = "rate_limit" ->
            Cooldown(f, HistoricalCooldown)
      [] OTHER -> ReturnEmails(f)

\* sync_historical_emails: messages().list() ended in resp
historical_list(f, resp, msgs, more) ==
    CASE resp = "ok" ->
            IF msgs = <<>>
            THEN ReturnEmails(f)
            ELSE [f EXCEPT !.pc = "get", !.messages = msgs, !.i = 1,
                           !.next_token = IF more THEN PageToken(f.pages + 1)
                                          ELSE "",
                           !.pages = @ + 1,
                           !.listed = @ + Len(msgs)]
      [] resp = "rate_limit" ->
            Cooldown(f, HistoricalCooldown)
      [] OTHER -> Failed(f, "GmailServiceError")

\* sync_recent_emails: messages().get() and _parse_message of messages[i]
\* ended in resp
recent_get(f, resp) ==
    CASE resp = "ok" ->
            NextMessage([f EXCEPT !.emails_data = Append(@, f.messages[f.i])])
      [] resp = "rate_limit" ->
            Cooldown(NextMessage([f EXCEPT !.failed = @ + 1]), RecentCooldown)
      [] OTHER -> NextMessage([f EXCEPT !.failed = @ + 1])

\* sync_historical_emails: messages().get() and _parse_message of messages[i]
\* ended in resp
historical_get(f, resp) ==
    CASE resp = "ok" ->
            NextMessage([f EXCEPT !.emails_data = Append(@, f.messages[f.i])])
      [] resp = "rate_limit" ->
            NextMessage([f EXCEPT !.failed = @ + 1])
      [] OTHER -> NextMessage([f EXCEPT !.failed = @ + 1])

\* the provider request the code issues next
NextRequest(f) ==
    LET pc == IF f.pc = "sleep" THEN f.resume ELSE f.pc
    IN  CASE pc = "list" -> [req |-> "list", target |-> f.page_token]
          [] pc = "get" -> [req |-> "get", target |-> f.messages[f.i]]
          [] OTHER -> [req |-> "", target |-> ""]

\* POST /api/sync or the background task of POST /api/sync/historical starts:
\* the gmail_service call authenticates if self.service is not set
StartSync(s, mode, classify) ==
    /\ ~Running_(sync[s])
    /\ invocations < MaxSyncs
    /\ invocations' = invocations + 1
    /\ LET f == [IdleSyncFrame EXCEPT !.run = invocations + 1, !.mode = mode,
                                      !.classify = classify, !.pc = "list"]
       IN  \E auth_ok \in BOOLEAN :
              /\ service => auth_ok
              /\ service' = auth_ok
              /\ sync' = [sync EXCEPT ![s] =
                             IF auth_ok THEN f ELSE Failed(f, "GmailAuthError")]
    /\ UNCHANGED <<sync_history, varsStore, varsDrafts, varsGateway, varsEnrich,
                   varsRest>>

\* messages().list(...).execute() and what the code does with its outcome
ListMessages(s) ==
    LET f == sync[s]
    IN  /\ f.pc = "list"
        /\ \E resp \in ListResponses, msgs \in Listings, more \in BOOLEAN :
              /\ resp # "ok" => (msgs = <<>> /\ ~more)
              /\ more => (f.pages + 1 < MaxPages /\ msgs # <<>>)
              /\ LET g == [f EXCEPT !.last = [req |-> "list",
                                              target |-> f.page_token,
                                              resp |-> resp,
                                              more |-> more]]
                 IN  sync' = [sync EXCEPT ![s] =
                                 IF f.mode = "recent"
                                 THEN recent_list(g, resp, msgs)
                                 ELSE historical_list(g, resp, msgs, more)]
        /\ UNCHANGED <<service, sync_history, invocations, varsStore,
                       varsDrafts, varsGateway, varsEnrich, varsRest>>

\* messages().get(id=msg["id"]).execute(), _parse_message, and what the code
\* does with the outcome
GetMessage(s) ==
    LET f == sync[s]
    IN  /\ f.pc = "get"
        /\ \E resp \in GetResponses :
              /\ LET g == [f EXCEPT !.last = [req |-> "get",
                                              target |-> f.messages[f.i],
                                              resp |-> resp,
                                              more |-> FALSE]]
                 IN  sync' = [sync EXCEPT ![s] =
                                 IF f.mode = "recent"
                                 THEN recent_get(g, resp)
                                 ELSE historical_get(g, resp)]
        /\ UNCHANGED <<service, sync_history, invocations, varsStore,
                       varsDrafts, varsGateway, varsEnrich, varsRest>>

\* time.sleep returns
CooldownOver(s) ==
    /\ sync[s].pc = "sleep"
    /\ sync' = [sync EXCEPT ![s].pc = sync[s].resume, ![s].resume = "",
                            ![s].delay = 0, ![s].last = NoExchange]
    /\ UNCHANGED <<service, sync_history, invocations, varsStore, varsDrafts,
                   varsGateway, varsEnrich, varsRest>>

\* main.py, loop over emails_data: existing = db.get_email(id); if existing:
\* continue
CheckExisting(s) ==
    LET f == sync[s]
        id == f.emails_data[f.j]
    IN  /\ f.pc = "check"
        /\ f.j <= Len(f.emails_data)
        /\ sync' = [sync EXCEPT ![s] =
                       IF get_email(id) # None
                       THEN [f EXCEPT !.j = @ + 1, !.skipped = @ + 1,
                                      !.last = NoExchange]
                       ELSE [f EXCEPT !.current = PlainMessage(id),
                                      !.last = NoExchange,
                                      !.pc = IF f.classify THEN "classify"
                                             ELSE "create"]]
        /\ UNCHANGED <<service, sync_history, invocations, varsStore,
                       varsDrafts, varsGateway, varsEnrich, varsRest>>

\* classification = await classifier.classify_email(email_data);
\* email_data.update(classification)
ClassifyEmail(s) ==
    LET f == sync[s]
    IN  /\ f.pc = "classify"
        /\ \E c \in Enrichments :
              sync' = [sync EXCEPT ![s] =
                          [f EXCEPT !.pc = "create",
                                    !.current.importance = c.importance,
                                    !.current.category = c.category,
                                    !.current.ai_summary = c.ai_summary]]
        /\ UNCHANGED <<service, sync_history, invocations, varsStore,
                       varsDrafts, varsGateway, varsEnrich, varsRest>>

\* a loop that counts a message as processed before it is stored
CreateEmail_CountsFirst(s) ==
    LET f == sync[s]
        r == create_email(f.current)
    IN  /\ f.pc = "create"
        /\ emails' = r.emails
        /\ sync' = [sync EXCEPT ![s] =
                       IF r.ok
                       THEN [f EXCEPT !.pc = "check", !.j = @ + 1,
                                      !.current = IdleSyncFrame.current,
                                      !.processed_count = @ + 1]
                       ELSE [f EXCEPT !.pc = "check", !.j = @ + 1,
                                      !.current = IdleSyncFrame.current,
                                      !.processed_count = @ + 1,
                                      !.errors = Append(@, f.current.id)]]
        /\ UNCHANGED <<service, sync_history, invocations, responses,
                       varsDrafts, varsGateway, varsEnrich, varsRest>>

\* db.create_email(email_data); processed_count += 1, or the except clause
\* that appends to errors
CreateEmail(s) ==
    LET f == sync[s]
        r == create_email(f.current)
    IN  /\ f.pc = "create"
        /\ emails' = r.emails
        /\ sync' = [sync EXCEPT ![s] =
                       IF r.ok
                       THEN [f EXCEPT !.pc = "check", !.j = @ + 1,
                                      !.current = IdleSyncFrame.current,
                                      !.processed_count = @ + 1]
                       ELSE [f EXCEPT !.pc = "check", !.j = @ + 1,
                                      !.current = IdleSyncFrame.current,
                                      !.errors = Append(@, f.current.id)]]
        /\ UNCHANGED <<service, sync_history, invocations, responses,
                       varsDrafts, varsGateway, varsEnrich, varsRest>>

\* db.log_sync(...) after the loop, and the handler returns: its locals are
\* gone, the tallies of the run stay
LogSync(s) ==
    LET f == sync[s]
    IN  /\ f.pc = "check"
        /\ f.j > Len(f.emails_data)
        /\ sync_history' =
              Append(sync_history,
                     [run |-> f.run,
                      emails_fetched |-> Len(f.emails_data),
                      emails_processed |-> f.processed_count,
                      errors |-> f.errors])
        /\ sync' = [sync EXCEPT ![s] =
                       [IdleSyncFrame EXCEPT !.pc = "done", !.run = f.run,
                                             !.mode = f.mode,
                                             !.listed = f.listed,
                                             !.failed = f.failed,
                                             !.skipped = f.skipped]]
        /\ UNCHANGED <<service, invocations, varsStore, varsDrafts,
                       varsGateway, varsEnrich, varsRest>>

Sequential(s) == \A o \in Syncs \ {s} : ~Running_(sync[o])

InitSync ==
    /\ IdleGateway
    /\ IdleRest
    /\ IdleEnrich
    /\ IdleStore
    /\ IdleDrafts
    /\ service = FALSE
    /\ sync = [s \in Syncs |-> IdleSyncFrame]
    /\ sync_history = <<>>
    /\ invocations = 0

\* one sync invocation after another
NextSync ==
    \/ \E mode \in Modes, classify \in BOOLEAN :
          Sequential("a") /\ StartSync("a", mode, classify)
    \/ ListMessages("a")
    \/ GetMessage("a")
    \/ CooldownOver("a")
    \/ CheckExisting("a")
    \/ ClassifyEmail("a")
    \/ CreateEmail("a")
    \/ LogSync("a")

SpecSync == InitSync /\ [][NextSync]_vars

\* a running handler takes its next step: every provider call returns or
\* times out, time.sleep returns, and the store answers
StepSync(s) ==
    \/ ListMessages(s)
    \/ GetMessage(s)
    \/ CooldownOver(s)
    \/ CheckExisting(s)
    \/ ClassifyEmail(s)
    \/ CreateEmail(s)
    \/ LogSync(s)

SpecSyncFair == InitSync /\ [][NextSync]_vars /\ WF_vars(StepSync("a"))

\* a sync invocation whose gmail_service call returned data: StartSync and
\* the provider exchanges that follow it, which touch nothing the handlers
\* share, taken as one step
StartFetched(s, mode, classify, data) ==
    /\ ~Running_(sync[s])
    /\ invocations < MaxSyncs
    /\ invocations' = invocations + 1
    /\ service' = TRUE
    /\ sync' = [sync EXCEPT ![s] =
                   [IdleSyncFrame EXCEPT !.run = invocations + 1,
                                         !.mode = mode,
                                         !.classify = classify,
                                         !.pc = "check",
                                         !.emails_data = data,
                                         !.listed = Len(data)]]
    /\ UNCHANGED <<sync_history, varsStore, varsDrafts, varsGateway, varsEnrich,
                   varsRest>>

\* handler "a" serves POST /api/sync on the event loop, handler "b" is the
\* worker thread that runs sync_task
ModeOf(s) == IF s = "a" THEN "recent" ELSE "historical"

\* sync invocations running at the same time: POST /api/sync awaits
\* classify_email, and the historical task runs in a worker thread
NextRace ==
    \/ \E s \in Syncs, classify \in BOOLEAN, data \in Listings :
          StartFetched(s, ModeOf(s), classify, data)
    \/ \E s \in Syncs : CheckExisting(s)
    \/ \E s \in Syncs : ClassifyEmail(s)
    \/ \E s \in Syncs : CreateEmail(s)
    \/ \E s \in Syncs : LogSync(s)

SpecRace == InitSync /\ [][NextRace]_vars

(***************************************************************************)
(* llm_service.py and classifier.py: the text helpers                      *)
(***************************************************************************)
\* LLMService.estimate_tokens
estimate_tokens(text) == Len(text) \div 4

\* the marker, "... [truncated]"
TruncationMarker ==
    <<".", ".", ".", " ", "[", "t", "r", "u", "n", "c", "a", "t", "e", "d", "]">>

\* LLMService.truncate_for_context
truncate_for_context(text, max_tokens) ==
    LET estimated == estimate_tokens(text)
        max_chars == max_tokens * 4
    IN  IF estimated <= max_tokens
        THEN text
        ELSE SubSeq(text, 1, max_chars) \o TruncationMarker

\* the second argument of truncate_for_context in the two prompt builders
ClassifyBudget == 5000

SummaryBudget == 8000

\* email_data.get("body_text") or email_data.get("snippet", "")
BodyOf(e) == IF e.body_text # <<>> THEN e.body_text ELSE e.snippet

\* _build_classification_prompt and _build_summary_prompt: the body their
\* f-string carries after the headers
_build_classification_prompt(e) == truncate_for_context(BodyOf(e), ClassifyBudget)

_build_summary_prompt(e) == truncate_for_context(BodyOf(e), SummaryBudget)

\* call_llm_json, from the point where call_llm has ended in r: the value
\* json.loads gives, or the exception raised
call_llm_json(r) ==
    IF r.act = "raise"
    THEN [ok |-> FALSE, cls |-> r.cls, value |-> ""]
    ELSE LET c1 == Strip(r.text)
             c2 == IF StartsWith(c1, FenceJson) THEN DropFirst(c1, 7) ELSE c1
             c3 == IF StartsWith(c2, Fence) THEN DropFirst(c2, 3) ELSE c2
             c4 == IF EndsWith(c3, Fence) THEN DropLast(c3, 3) ELSE c3
             response_clean == Strip(c4)
         IN  IF json_loads(response_clean) = "error"
             THEN [ok |-> FALSE, cls |-> "LLMServiceError", value |-> ""]
             ELSE [ok |-> TRUE, cls |-> "", value |-> json_loads(response_clean)]

\* the largest token budget truncate_for_context is given here
MaxBudget == 2

\* a text of n characters
TextOfLen(n) == [i \in 1..n |-> IF i % 2 = 1 THEN "a" ELSE "b"]

\* lengths on both sides of each budget: up to past the point where the
\* marker is shorter than what it replaces, and around the two budgets of
\* the prompt builders, read as characters and as tokens
TextLengths ==
    (0..(4 * MaxBudget + 17))
        \cup {ClassifyBudget, ClassifyBudget + 1, SummaryBudget + 1,
              4 * ClassifyBudget + 3, 4 * ClassifyBudget + 4,
              4 * SummaryBudget + 3, 4 * SummaryBudget + 4}

\* JSON documents and other contents a model may return, bare
Cores ==
    { <<"{", "}">>, <<"{", " ", "}">>, W_true, <<"o", "k">>, <<"{">>,
      <<"}", "{">>, <<>> }

\* what a model may put before and after: nothing, whitespace, prose
Prose == { <<>>, <<"\n">>, <<"o", "k", " ">>, <<" ", "o", "k", ".">> }

\* core wrapped in code fences, with and without the json tag
Fenced(core) == FenceJson \o <<"\n">> \o core \o <<"\n">> \o Fence

FencedBare(core) == Fence \o core \o Fence

RawTexts ==
    {p \o c \o q : p \in Prose, c \in Cores, q \in Prose}
        \cup {Fenced(c) : c \in Cores}
        \cup {FencedBare(c) : c \in Cores}
        \cup {p \o Fenced(c) : p \in Prose, c \in Cores}

NotApplied(text, max_tokens) ==
    [fn |-> "", text |-> text, max_tokens |-> max_tokens, out |-> None]

\* applied.fn has been called on applied.text; for the first action
\* applied.max_tokens is its second argument
TruncateForContext ==
    /\ applied.fn = ""
    /\ applied' = [applied EXCEPT
                      !.fn = "truncate_for_context",
                      !.out = Some(truncate_for_context(applied.text,
                                                        applied.max_tokens))]
    /\ UNCHANGED <<throttle, batch, sending, varsGateway, varsEnrich, varsStore,
                   varsDrafts, varsSync>>

BuildClassificationPrompt ==
    /\ applied.fn = ""
    /\ \E e \in {[body_text |-> applied.text, snippet |-> <<>>],
                  [body_text |-> <<>>, snippet |-> applied.text]} :
          applied' = [applied EXCEPT
                         !.fn = "_build_classification_prompt",
                         !.out = Some(_build_classification_prompt(e))]
    /\ UNCHANGED <<throttle, batch, sending, varsGateway, varsEnrich, varsStore,
                   varsDrafts, varsSync>>

BuildSummaryPrompt ==
    /\ applied.fn = ""
    /\ \E e \in {[body_text |-> applied.text, snippet |-> <<>>],
                  [body_text |-> <<>>, snippet |-> applied.text]} :
          applied' = [applied EXCEPT
                         !.fn = "_build_summary_prompt",
                         !.out = Some(_build_summary_prompt(e))]
    /\ UNCHANGED <<throttle, batch, sending, varsGateway, varsEnrich, varsStore,
                   varsDrafts, varsSync>>

ParseResponseJson ==
    /\ applied.fn = ""
    /\ applied' = [applied EXCEPT
                      !.fn = "_parse_response_json",
                      !.out = Some(_parse_response_json(applied.text))]
    /\ UNCHANGED <<throttle, batch, sending, varsGateway, varsEnrich, varsStore,
                   varsDrafts, varsSync>>

CallLlmJson ==
    /\ applied.fn = ""
    /\ \E r \in {Return(applied.text), OnTimeout(2)} :
          applied' = [applied EXCEPT
                         !.fn = "call_llm_json",
                         !.text = r.text,
                         !.out = Some(call_llm_json(r))]
    /\ UNCHANGED <<throttle, batch, sending, varsGateway, varsEnrich, varsStore,
                   varsDrafts, varsSync>>

InitText ==
    /\ IdleGateway
    /\ IdleEnrich
    /\ IdleStore
    /\ IdleDrafts
    /\ IdleSync
    /\ throttle = <<>>
    /\ batch = <<>>
    /\ sending = <<>>
    /\ \/ \E n \in TextLengths, b \in 0..MaxBudget :
             applied = NotApplied(TextOfLen(n), b)
       \/ \E t \in RawTexts : applied = NotApplied(t, MaxBudget)

NextText ==
    \/ TruncateForContext
    \/ BuildClassificationPrompt
    \/ BuildSummaryPrompt
    \/ ParseResponseJson
    \/ CallLlmJson

SpecText == InitText /\ [][NextText]_vars

(***************************************************************************)
(* classifier.py: the label a classification call's text is turned into   *)
(***************************************************************************)
\* the capital of the letters a label starts with
UpperChar(c) ==
    CASE c = "h" -> "H"
      [] c = "m" -> "M"
      [] c = "l" -> "L"
      [] c = "p" -> "P"
      [] c = "n" -> "N"
      [] c = "u" -> "U"
      [] c = "c" -> "C"
      [] c = "a" -> "A"
      [] OTHER -> c

Capitalized(w) == <<UpperChar(Head(w))>> \o Tail(w)

\* texts a model may answer a classification prompt with: a label, as it is
\* or capitalized, after whitespace or not, followed by periods and commas
\* or not, and then by whitespace or not; a label with a period or comma
\* inside or in front; and the texts of the endpoint
LabelTexts ==
    {ws1 \o w \o p \o ws2 :
        ws1 \in {<<>>, <<" ">>},
        w \in {l : l \in IMPORTANCE_LEVELS \cup CATEGORIES}
                \cup {Capitalized(l) : l \in IMPORTANCE_LEVELS \cup CATEGORIES},
        p \in {<<>>, <<".">>, <<",">>, <<".", ",">>},
        ws2 \in {<<>>, <<"\n">>}}
        \cup {<<Head(l)>> \o <<c>> \o Tail(l) :
                 l \in IMPORTANCE_LEVELS \cup CATEGORIES, c \in {".", ","}}
        \cup {<<c>> \o l : l \in IMPORTANCE_LEVELS \cup CATEGORIES, c \in {".", ","}}
        \cup Texts

\* classify_importance or classify_category whose call_llm returned
\* applied.text
ExtractLabel ==
    /\ applied.fn = ""
    /\ \E fn \in {"classify_importance", "classify_category"} :
          applied' = [applied EXCEPT
                         !.fn = fn,
                         !.out = Some(IF fn = "classify_importance"
                                      THEN classify_importance(Return(applied.text))
                                      ELSE classify_category(Return(applied.text)))]
    /\ UNCHANGED <<throttle, batch, sending, varsGateway, varsEnrich, varsStore,
                   varsDrafts, varsSync>>

InitLabel ==
    /\ IdleGateway
    /\ IdleEnrich
    /\ IdleStore
    /\ IdleDrafts
    /\ IdleSync
    /\ throttle = <<>>
    /\ batch = <<>>
    /\ sending = <<>>
    /\ \E t \in LabelTexts : applied = NotApplied(t, 0)

NextLabel == ExtractLabel

SpecLabel == InitLabel /\ [][NextLabel]_vars

(***************************************************************************)
(* gmail_service.py: GmailService._rate_limit                              *)
(***************************************************************************)
\* self._rate_limit_delay = 0.1, in milliseconds
RateLimitDelay == 100

\* the clock advances in steps of this many milliseconds
TimeStep == 50

\* the clock stops here
MaxTime == 400

\* the event loop thread (sync_recent_emails, send_email, mark_as_read) and
\* the worker thread of the historical sync share the one GmailService
Threads == {"loop", "worker"}

\* the provider requests that follow a self._rate_limit() call
Requests == {"list", "get", "send", "modify"}

\* a thread outside _rate_limit and outside a provider request
IdleThread == [pc |-> "idle", op |-> "", wake_at |-> 0, start |-> 0,
               prev_end |-> None]

\* _rate_limit up to its last statement, called at time now: now -
\* self._last_request_time is compared with the delay, and time.sleep is
\* entered when it is less
_rate_limit(th, now, last_request_time, op) ==
    LET time_since_last == now - last_request_time
    IN  IF time_since_last < RateLimitDelay
        THEN [th EXCEPT !.pc = "sleep", !.op = op,
                        !.wake_at = now + (RateLimitDelay - time_since_last)]
        ELSE [th EXCEPT !.pc = "stamp", !.op = op]

\* a thread calls self._rate_limit() on its way to provider request op
EnterRateLimit(t, op) ==
    /\ throttle.threads[t].pc = "idle"
    /\ throttle' = [throttle EXCEPT
                       !.threads[t] =
                           _rate_limit(throttle.threads[t], throttle.now,
                                       throttle.last_request_time, op)]
    /\ UNCHANGED <<applied, batch, sending, varsGateway, varsEnrich, varsStore,
                   varsDrafts, varsSync>>

\* time.sleep returns, not before the time asked for
SleepOver(t) ==
    /\ throttle.threads[t].pc = "sleep"
    /\ throttle.now >= throttle.threads[t].wake_at
    /\ throttle' = [throttle EXCEPT !.threads[t].pc = "stamp",
                                    !.threads[t].wake_at = 0]
    /\ UNCHANGED <<applied, batch, sending, varsGateway, varsEnrich, varsStore,
                   varsDrafts, varsSync>>

\* self._last_request_time = time.time(); _rate_limit returns and the
\* request is sent: start is the time it starts, prev_end the time the
\* latest provider request before it ended
SendProviderRequest(t) ==
    /\ throttle.threads[t].pc = "stamp"
    /\ throttle' = [throttle EXCEPT
                       !.last_request_time = throttle.now,
                       !.threads[t].pc = "request",
                       !.threads[t].start = throttle.now,
                       !.threads[t].prev_end = throttle.last_end]
    /\ UNCHANGED <<applied, batch, sending, varsGateway, varsEnrich, varsStore,
                   varsDrafts, varsSync>>

\* .execute() returns or raises
ProviderRequestEnds(t) ==
    /\ throttle.threads[t].pc = "request"
    /\ throttle' = [throttle EXCEPT !.threads[t] = IdleThread,
                                    !.last_end = Some(throttle.now)]
    /\ UNCHANGED <<applied, batch, sending, varsGateway, varsEnrich, varsStore,
                   varsDrafts, varsSync>>

\* time passes
TimePasses ==
    /\ throttle.now + TimeStep <= MaxTime
    /\ throttle' = [throttle EXCEPT !.now = @ + TimeStep]
    /\ UNCHANGED <<applied, batch, sending, varsGateway, varsEnrich, varsStore,
                   varsDrafts, varsSync>>

\* GmailService.__init__ sets _last_request_time = 0; time.time() is far
\* beyond the delay, which is all the first comparison sees of it
InitThrottle ==
    /\ IdleGateway
    /\ IdleEnrich
    /\ IdleStore
    /\ IdleDrafts
    /\ IdleSync
    /\ applied = <<>>
    /\ batch = <<>>
    /\ sending = <<>>
    /\ throttle = [now |-> RateLimitDelay, last_request_time |-> 0,
                   last_end |-> None,
                   threads |-> [t \in Threads |-> IdleThread]]

NextThrottle ==
    \/ \E t \in Threads, op \in Requests : EnterRateLimit(t, op)
    \/ \E t \in Threads : SleepOver(t)
    \/ \E t \in Threads : SendProviderRequest(t)
    \/ \E t \in Threads : ProviderRequestEnds(t)
    \/ TimePasses

SpecThrottle == InitThrottle /\ [][NextThrottle]_vars

(***************************************************************************)
(* classifier.py and main.py: classify_email called in a loop              *)
(***************************************************************************)
\* the loops that await classify_email once per message: batch_classify,
\* and the loops of sync_emails and sync_task over new messages
Callers == {"batch_classify", "sync_emails", "sync_task"}

\* the most messages such a loop is given
MaxBatch == 2

\* the lists a loop may be given: each message with or without content
Batches == UNION {[1..n -> EmailInputs] : n \in 0..MaxBatch}

\* what call_llm may end in for a sub-derivation of a message in a loop
LoopCallResults == {Return(W_high), Return(W_urgent), OnTimeout(2)}

\* a loop that creates the next classify_email without awaiting the one
\* before
AwaitReturned_NotAwaited == batch.pc \in {"loop", "gather"}

\* the loop is between two iterations: "await classify_email(...)" has
\* returned for the message before, if any
AwaitReturned == batch.pc = "loop"

\* for email_data in emails: classify_email(email_data) is called for the
\* next message and asyncio.gather creates its three sub-derivations
NextEmail ==
    /\ AwaitReturned
    /\ batch.k < Len(batch.emails)
    /\ batch' = [batch EXCEPT !.pc = "gather", !.k = @ + 1]
    /\ UNCHANGED <<applied, throttle, sending, varsGateway, varsEnrich, varsStore,
                   varsDrafts, varsSync>>

\* sub-derivation t of message i runs up to its await of call_llm, or to
\* the early return of generate_summary
LoopStartTask(i, t) ==
    /\ i <= batch.k
    /\ batch.subs[i][t] = Pending
    /\ batch' = [batch EXCEPT
                    !.subs[i][t] =
                        IF t = "summary" /\ SummarySkipped(batch.emails[i])
                        THEN Returned(None)
                        ELSE Running]
    /\ UNCHANGED <<applied, throttle, sending, varsGateway, varsEnrich, varsStore,
                   varsDrafts, varsSync>>

\* the call_llm of sub-derivation t of message i ends, and so does t
LoopTaskEnds(i, t) ==
    /\ batch.subs[i][t] = Running
    /\ \E r \in LoopCallResults :
          batch' = [batch EXCEPT !.subs[i][t] = Derive(t, r)]
    /\ UNCHANGED <<applied, throttle, sending, varsGateway, varsEnrich, varsStore,
                   varsDrafts, varsSync>>

\* the gather of message i is over and classify_email returns: the loop
\* appends the classification (batch_classify) or stores the message with
\* it (sync); of is the position of the message it belongs to
LoopGatherEnds(i) ==
    /\ batch.pc = "gather"
    /\ i = batch.k
    /\ \A t \in Tasks : batch.subs[i][t].state = "returned"
    /\ batch' = [batch EXCEPT
                    !.pc = "loop",
                    !.results =
                        Append(@, [of |-> i,
                                   importance |-> batch.subs[i]["importance"].val,
                                   category |-> batch.subs[i]["category"].val,
                                   ai_summary |-> batch.subs[i]["summary"].val])]
    /\ UNCHANGED <<applied, throttle, sending, varsGateway, varsEnrich, varsStore,
                   varsDrafts, varsSync>>

\* the for loop is exhausted: return results
LoopReturns ==
    /\ AwaitReturned
    /\ batch.k = Len(batch.emails)
    /\ batch' = [batch EXCEPT !.pc = "done"]
    /\ UNCHANGED <<applied, throttle, sending, varsGateway, varsEnrich, varsStore,
                   varsDrafts, varsSync>>

InitBatch ==
    /\ IdleGateway
    /\ IdleEnrich
    /\ IdleStore
    /\ IdleDrafts
    /\ IdleSync
    /\ applied = <<>>
    /\ throttle = <<>>
    /\ sending = <<>>
    /\ \E c \in Callers, emails_ \in Batches :
          batch = [caller |-> c, emails |-> emails_, k |-> 0, pc |-> "loop",
                   subs |-> [i \in 1..Len(emails_) |-> [t \in Tasks |-> Pending]],
                   results |-> <<>>]

NextBatch ==
    \/ NextEmail
    \/ \E i \in 1..MaxBatch, t \in Tasks : i <= Len(batch.emails) /\ LoopStartTask(i, t)
    \/ \E i \in 1..MaxBatch, t \in Tasks : i <= Len(batch.emails) /\ LoopTaskEnds(i, t)
    \/ \E i \in 1..MaxBatch : i <= Len(batch.emails) /\ LoopGatherEnds(i)
    \/ LoopReturns

SpecBatch == InitBatch /\ [][NextBatch]_vars

(***************************************************************************)
(* gmail_service.py: GmailService._extract_sender_name                     *)
(***************************************************************************)
UpperLetters == {"A", "B", "C", "D", "E", "F", "G", "H", "I", "J", "K", "L", "M", "N", "O", "P", "Q", "R", "S", "T", "U", "V", "W", "X", "Y", "Z"}

LowerLetters == {"a", "b", "c", "d", "e", "f", "g", "h", "i", "j", "k", "l", "m", "n", "o", "p", "q", "r", "s", "t", "u", "v", "w", "x", "y", "z"}

\* text s has text p at position i
HasAt(s, p, i) ==
    /\ i >= 1
    /\ i + Len(p) - 1 <= Len(s)
    /\ \A k \in 1..Len(p) : s[i + k - 1] = p[k]

\* newsletter_patterns, in order: '<' local '@' domain '>', where <<>>
\* stands for the part the pattern leaves open (.+ or .+?)
newsletter_patterns ==
    << [local |-> <<>>, domain |-> <<"m", "e", "d", "i", "u", "m", ".", "c", "o", "m">>, service |-> <<"M", "e", "d", "i", "u", "m">>],
       [local |-> <<"n", "o", "t", "i", "f", "i", "c", "a", "t", "i", "o", "n", "s">>, domain |-> <<"g", "i", "t", "h", "u", "b", ".", "c", "o", "m">>, service |-> <<"G", "i", "t", "H", "u", "b">>],
       [local |-> <<"n", "o", "r", "e", "p", "l", "y">>, domain |-> <<"g", "i", "t", "h", "u", "b", ".", "c", "o", "m">>, service |-> <<"G", "i", "t", "H", "u", "b">>],
       [local |-> <<>>, domain |-> <<"l", "i", "n", "k", "e", "d", "i", "n", ".", "c", "o", "m">>, service |-> <<"L", "i", "n", "k", "e", "d", "I", "n">>],
       [local |-> <<"d", "i", "g", "e", "s", "t">>, domain |-> <<>>, service |-> <<"N", "e", "w", "s", "l", "e", "t", "t", "e", "r">>],
       [local |-> <<"n", "e", "w", "s", "l", "e", "t", "t", "e", "r">>, domain |-> <<>>, service |-> <<"N", "e", "w", "s", "l", "e", "t", "t", "e", "r">>],
       [local |-> <<"u", "p", "d", "a", "t", "e", "s">>, domain |-> <<>>, service |-> <<"U", "p", "d", "a", "t", "e", "s">>],
       [local |-> <<"n", "o", "r", "e", "p", "l", "y">>, domain |-> <<>>, service |-> <<"S", "e", "r", "v", "i", "c", "e">>] >>

\* the positions a pattern is tried in
PatternOrder_ServiceFirst == <<8, 7, 6, 5, 4, 3, 2, 1>>

\* for pattern, service_name in newsletter_patterns
PatternOrder == <<1, 2, 3, 4, 5, 6, 7, 8>>

\* no "\n" in s[a..b]: "." does not match a newline
NoNewline(s, a, b) == \A m \in a..b : s[m] # "\n"

\* re.search(pattern, s) finds a match
PatternFound(s, pat) ==
    \E i \in 1..Len(s) :
        /\ s[i] = "<"
        /\ IF pat.local # <<>> /\ pat.domain # <<>>
           THEN HasAt(s, pat.local \o <<"@">> \o pat.domain \o <<">">>, i + 1)
           ELSE IF pat.local = <<>>
           THEN \E j \in (i + 2)..Len(s) :
                   /\ HasAt(s, <<"@">> \o pat.domain \o <<">">>, j)
                   /\ NoNewline(s, i + 1, j - 1)
           ELSE /\ HasAt(s, pat.local \o <<"@">>, i + 1)
                /\ \E k \in (i + Len(pat.local) + 3)..Len(s) :
                      /\ s[k] = ">"
                      /\ NoNewline(s, i + Len(pat.local) + 2, k - 1)

\* name_patterns, in order: the literal lead, whether the character class
\* of the name has \s, and whether a comma must follow
name_patterns ==
    << [lead |-> <<"S", "t", "o", "r", "i", "e", "s", " ", "f", "o", "r", " ">>, spaces |-> TRUE, comma |-> FALSE],
       [lead |-> <<"H", "i", " ">>, spaces |-> FALSE, comma |-> TRUE],
       [lead |-> <<"D", "e", "a", "r", " ">>, spaces |-> FALSE, comma |-> TRUE],
       [lead |-> <<"H", "e", "l", "l", "o", " ">>, spaces |-> FALSE, comma |-> TRUE] >>

NameClass(np) ==
    UpperLetters \cup LowerLetters \cup (IF np.spaces THEN Whitespace ELSE {})

RECURSIVE RunEnd(_, _, _)
\* the last position of the longest run of characters of cls that starts at
\* k, k - 1 when there is none
RunEnd(t, k, cls) ==
    IF k <= Len(t) /\ t[k] \in cls THEN RunEnd(t, k + 1, cls) ELSE k - 1

\* the name pattern matches t at position i
NameMatchAt(t, np, i) ==
    LET a == i + Len(np.lead)
        e == RunEnd(t, a + 1, NameClass(np))
    IN  /\ HasAt(t, np.lead, i)
        /\ a <= Len(t)
        /\ t[a] \in UpperLetters
        /\ e >= a + 1
        /\ np.comma => (e + 1 <= Len(t) /\ t[e + 1] = ",")

\* re.search(name_pattern, t): group 1 of the leftmost match, or None
NameGroup(t, np) ==
    LET at == {i \in 1..Len(t) : NameMatchAt(t, np, i)}
    IN  IF at = {} THEN None
        ELSE LET i == CHOOSE x \in at : \A y \in at : x <= y
                 a == i + Len(np.lead)
             IN  Some(SubSeq(t, a, RunEnd(t, a + 1, NameClass(np))))

\* body_text[:500]
BodyWindow == 500

\* len(extracted_name) < 50
NameLimit == 50

RECURSIVE ExtractedName(_, _)
\* for name_pattern in name_patterns, from pattern k on: the first
\* extracted_name that passes the sanity check, or None
ExtractedName(t, k) ==
    IF k > Len(name_patterns) THEN None
    ELSE LET g == NameGroup(t, name_patterns[k])
         IN  IF g # None /\ Strip(g[1]) # <<>> /\ Len(Strip(g[1])) < NameLimit
             THEN Some(Strip(g[1]))
             ELSE ExtractedName(t, k + 1)

\* the first position from k on whose character is in cs, Len(s) + 1 if none
RECURSIVE FirstOf(_, _, _)
FirstOf(s, k, cs) ==
    IF k <= Len(s) /\ s[k] \notin cs THEN FirstOf(s, k + 1, cs) ELSE k

\* re.match(r'"?([^"<>]+)"?\s*<([^<>]+)>', from_addr): group 1, or None
DisplayName(s) ==
    LET a == IF s # <<>> /\ s[1] = "\"" THEN 2 ELSE 1
        p == FirstOf(s, a, {"\"", "<", ">"})
        q == IF p <= Len(s) /\ s[p] = "\"" THEN p + 1 ELSE p
        b == RunEnd(s, q, Whitespace) + 1
        c == FirstOf(s, b + 1, {"<", ">"})
    IN  IF /\ p > a
           /\ b <= Len(s) /\ s[b] = "<"
           /\ c <= Len(s) /\ s[c] = ">" /\ c > b + 1
        THEN Some(SubSeq(s, a, p - 1))
        ELSE None

\* re.match(r'<([^<>]+)>', from_addr): group 1, or None
Bracketed(s) ==
    LET c == FirstOf(s, 2, {"<", ">"})
    IN  IF s # <<>> /\ s[1] = "<" /\ c <= Len(s) /\ s[c] = ">" /\ c > 2
        THEN Some(SubSeq(s, 2, c - 1))
        ELSE None

\* email.split('@')[0]
BeforeAt(s) == SubSeq(s, 1, FirstOf(s, 1, {"@"}) - 1)

\* GmailService._extract_sender_name
_extract_sender_name(from_addr, body_text) ==
    LET from_lower == Lower(from_addr)
        hits == {n \in 1..Len(PatternOrder) :
                    PatternFound(from_lower, newsletter_patterns[PatternOrder[n]])}
    IN  IF hits # {}
        THEN LET n == CHOOSE x \in hits : \A y \in hits : x <= y
                 service_name == newsletter_patterns[PatternOrder[n]].service
                 window == SubSeq(body_text, 1,
                                  IF Len(body_text) < BodyWindow
                                  THEN Len(body_text) ELSE BodyWindow)
                 name == ExtractedName(window, 1)
             IN  IF name # None
                 THEN service_name \o <<" ", "(">> \o name[1] \o <<")">>
                 ELSE service_name
        ELSE IF DisplayName(from_addr) # None
        THEN Strip(DisplayName(from_addr)[1])
        ELSE IF \A i \in 1..Len(from_addr) : from_addr[i] \notin {"<", ">"}
        THEN from_addr
        ELSE IF Bracketed(from_addr) # None
        THEN BeforeAt(Bracketed(from_addr)[1])
        ELSE from_addr

\* From headers: a display name before the bracketed address, bare or in
\* quotes; the bracketed address alone; the address without brackets
Shapes == {"named", "quoted", "bracketed", "bare"}

SenderLocals ==
    {<<"b", "o", "b">>,
     <<"n", "o", "r", "e", "p", "l", "y">>,
     <<"N", "O", "r", "e", "p", "l", "y">>,
     <<"d", "i", "g", "e", "s", "t">>,
     <<"n", "e", "w", "s", "l", "e", "t", "t", "e", "r">>,
     <<"u", "p", "d", "a", "t", "e", "s">>,
     <<"n", "o", "t", "i", "f", "i", "c", "a", "t", "i", "o", "n", "s">>}

SenderDomains ==
    {<<"x", ".", "i", "o">>,
     <<"m", "e", "d", "i", "u", "m", ".", "c", "o", "m">>,
     <<"g", "i", "t", "h", "u", "b", ".", "c", "o", "m">>,
     <<"l", "i", "n", "k", "e", "d", "i", "n", ".", "c", "o", "m">>}

Senders == [shape : Shapes, name : {<<"A", "n", "n", " ", "L", "e", "e">>}, local : SenderLocals,
            domain : SenderDomains]

AddressOf(h) == h.local \o <<"@">> \o h.domain

\* the From header of sender h
HeaderOf(h) ==
    CASE h.shape = "named" -> h.name \o <<" ", "<">> \o AddressOf(h) \o <<">">>
      [] h.shape = "quoted" ->
            <<"\"">> \o h.name \o <<"\"", " ", "<">> \o AddressOf(h) \o <<">">>
      [] h.shape = "bracketed" -> <<"<">> \o AddressOf(h) \o <<">">>
      [] OTHER -> AddressOf(h)

\* what a body may open with after its padding
GreetingText(kind) ==
    CASE kind = "hi" -> <<"H", "i", " ", "B", "o", "b", ",">>
      [] kind = "dear" -> <<"D", "e", "a", "r", " ", "B", "o", "b", ",">>
      [] kind = "hello" -> <<"H", "e", "l", "l", "o", " ", "B", "o", "b", ",">>
      [] kind = "stories" -> <<"S", "t", "o", "r", "i", "e", "s", " ", "f", "o", "r", " ", "A", "n", "n", " ", "L", "e", "e", ".">>
      [] kind = "hi_then_stories" -> <<"H", "i", " ", "B", "o", "b", ",", " ", "s", "e", "e", " ", "S", "t", "o", "r", "i", "e", "s", " ", "f", "o", "r", " ", "A", "n", "n", " ", "L", "e", "e", ".">>
      [] kind = "stories_long" ->
            <<"S", "t", "o", "r", "i", "e", "s", " ", "f", "o", "r", " ", "A", "n", "n", " ", "L", "e", "e", "\n", "T", "o", "d", "a", "y", " ", "w", "e", " ", "b", "r", "i", "n", "g", " ", "y", "o", "u", " ", "t", "h", "e", " ", "b", "e", "s", "t", " ", "r", "e", "a", "d", "s", " ", "p", "i", "c", "k", "e", "d", " ", "f", "o", "r", " ", "y", "o", "u", "r", " ", "f", "e", "e", "d", ".">>
      [] kind = "stories_long_then_hi" ->
            <<"S", "t", "o", "r", "i", "e", "s", " ", "f", "o", "r", " ", "A", "n", "n", " ", "L", "e", "e", "\n", "T", "o", "d", "a", "y", " ", "w", "e", " ", "b", "r", "i", "n", "g", " ", "y", "o", "u", " ", "t", "h", "e", " ", "b", "e", "s", "t", " ", "r", "e", "a", "d", "s", " ", "p", "i", "c", "k", "e", "d", " ", "f", "o", "r", " ", "y", "o", "u", "r", " ", "f", "e", "e", "d", ".", " ", "H", "i", " ", "B", "o", "b", ",">>
      [] kind = "lower" -> <<"h", "i", " ", "b", "o", "b", ",">>
      [] OTHER -> <<>>

\* bodies: a greeting at the start, ending at the last character of the
\* window, ending one character after it, or starting after the window
Greetings ==
    [kind : {"none", "hi", "dear", "hello", "stories", "hi_then_stories",
             "stories_long", "stories_long_then_hi", "lower"},
     pad : {0, BodyWindow}]
        \cup {[kind |-> k, pad |-> BodyWindow - Len(GreetingText(k)) + d] :
                 k \in {"hi", "dear", "hello"}, d \in {0, 1}}

BodyOfGreeting(g) == [i \in 1..g.pad |-> "-"] \o GreetingText(g.kind) \o <<"-">>

\* _parse_message calls _extract_sender_name(from_addr, body_text)
ExtractSenderName ==
    /\ applied.fn = ""
    /\ applied' = [applied EXCEPT
                      !.fn = "_extract_sender_name",
                      !.out = Some(_extract_sender_name(applied.from_addr,
                                                        applied.body_text))]
    /\ UNCHANGED <<throttle, batch, sending, varsGateway, varsEnrich, varsStore,
                   varsDrafts, varsSync>>

InitSender ==
    /\ IdleGateway
    /\ IdleEnrich
    /\ IdleStore
    /\ IdleDrafts
    /\ IdleSync
    /\ throttle = <<>>
    /\ batch = <<>>
    /\ sending = <<>>
    /\ \E h \in Senders, g \in Greetings :
          applied = [fn |-> "", sender |-> h, greeting |-> g,
                     from_addr |-> HeaderOf(h),
                     body_text |-> BodyOfGreeting(g), out |-> None]

NextSender == ExtractSenderName

SpecSender == InitSender /\ [][NextSender]_vars

(***************************************************************************)
(* main.py: send_email_response, with GmailService.send_email and          *)
(* mark_as_read and EmailDB.update_email                                   *)
(***************************************************************************)
\* the most send requests in one behaviour
MaxSends == 3

\* what messages().send().execute() can end in; "auth" is authenticate()
\* failing before the request
SendResponses == {"ok", "rate_limit", "http_error", "error", "auth"}

\* what messages().modify().execute() can end in
ModifyResponses == {"ok", "http_error", "error"}

\* no send request is being served; sent_id is what send_email returned,
\* marked what mark_as_read returned, status the HTTP status of the answer
IdleSend ==
    [pc |-> "idle", email_id |-> "", sent_id |-> None, marked |-> None,
     status |-> 0, n |-> 0]

\* GmailService.send_email: the message id, or the exception it raises
send_email(resp) ==
    CASE resp = "ok" -> [raised |-> FALSE, cls |-> "", id |-> Some("sent")]
      [] resp = "rate_limit" ->
            [raised |-> TRUE, cls |-> "GmailQuotaError", id |-> None]
      [] resp = "auth" -> [raised |-> TRUE, cls |-> "GmailAuthError", id |-> None]
      [] OTHER -> [raised |-> TRUE, cls |-> "GmailServiceError", id |-> None]

\* a mark_as_read that lets the provider's error through
mark_as_read_Propagates(resp) ==
    [raised |-> resp # "ok", value |-> TRUE]

\* GmailService.mark_as_read: True, or False after any exception
mark_as_read(resp) == [raised |-> FALSE, value |-> resp = "ok"]

\* EmailDB.update_email(email_id, {"status": status}): the rows after it; a
\* missing row changes nothing (it returns None)
update_email(email_id, status) ==
    {IF e.id = email_id THEN [e EXCEPT !.status = status] ELSE e : e \in emails}

\* POST /api/emails/{email_id}/send arrives: email = db.get_email(email_id);
\* the HTTPException(404) raised inside the try is caught by "except
\* Exception" and answered as 500
StartSend(email_id) ==
    /\ sending.pc \in {"idle", "done"}
    /\ sending.n < MaxSends
    /\ sending' =
          IF get_email(email_id) = None
          THEN [IdleSend EXCEPT !.pc = "done", !.email_id = email_id,
                                !.status = 500, !.n = sending.n + 1]
          ELSE [IdleSend EXCEPT !.pc = "send", !.email_id = email_id,
                                !.n = sending.n + 1]
    /\ UNCHANGED <<applied, throttle, batch, varsGateway, varsEnrich, varsStore,
                   varsDrafts, varsSync>>

\* sent_id = gmail_service.send_email(...); an exception is answered as 500
ProviderSend ==
    /\ sending.pc = "send"
    /\ \E resp \in SendResponses :
          LET r == send_email(resp)
          IN  sending' =
                 IF r.raised
                 THEN [sending EXCEPT !.pc = "done", !.status = 500]
                 ELSE [sending EXCEPT !.pc = "mark", !.sent_id = r.id]
    /\ UNCHANGED <<applied, throttle, batch, varsGateway, varsEnrich, varsStore,
                   varsDrafts, varsSync>>

\* gmail_service.mark_as_read(email_id); its value is not looked at
ProviderMarkAsRead ==
    /\ sending.pc = "mark"
    /\ \E resp \in ModifyResponses :
          LET r == mark_as_read(resp)
          IN  sending' =
                 IF r.raised
                 THEN [sending EXCEPT !.pc = "done", !.status = 500]
                 ELSE [sending EXCEPT !.pc = "update",
                                      !.marked = Some(r.value)]
    /\ UNCHANGED <<applied, throttle, batch, varsGateway, varsEnrich, varsStore,
                   varsDrafts, varsSync>>

\* db.update_email(email_id, {"status": "read"}) and the answer
\* {"status": "sent", ...}
StoreStatusRead ==
    /\ sending.pc = "update"
    /\ emails' = update_email(sending.email_id, "read")
    /\ sending' = [sending EXCEPT !.pc = "done", !.status = 200]
    /\ UNCHANGED <<applied, throttle, batch, responses, varsGateway, varsEnrich,
                   varsDrafts, varsSync>>

InitSend ==
    /\ IdleGateway
    /\ IdleEnrich
    /\ IdleSync
    /\ emails = {}
    /\ responses = <<>>
    /\ served = [id \in MessageIds |-> None]
    /\ reply = None
    /\ improved = None
    /\ applied = <<>>
    /\ throttle = <<>>
    /\ batch = <<>>
    /\ sending = IdleSend

\* send requests, one at a time, while a background sync stores messages
NextSend ==
    \/ \E id \in MessageIds : DbCreateEmail(id)
    \/ \E id \in MessageIds : StartSend(id)
    \/ ProviderSend
    \/ ProviderMarkAsRead
    \/ StoreStatusRead

SpecSend == InitSend /\ [][NextSend]_vars

(***************************************************************************)
(* Claims about the gateway (SpecGateway)                                  *)
(***************************************************************************)
AllTimeouts == \A i \in 1..Len(outs) : outs[i] = "timeout"

\* C1: one call to call_llm sends at most 3 requests, whatever the endpoint
\* answers; when every attempt times out it has sent exactly 3 requests when
\* it ends, and it ends by raising LLMTimeoutError, never by returning text.
C1_AtMostThreeRequests ==
    /\ requests <= 3
    /\ (call.pc = "done" /\ AllTimeouts) =>
          /\ requests = 3
          /\ call.ret.act = "raise"
          /\ call.ret.cls = "LLMTimeoutError"

C1_Witness == call.pc = "done" /\ outs = <<"timeout", "timeout", "timeout">>

\* C2: a non-2xx response on any attempt ends call_llm at once with the
\* "returned error" LLMServiceError: it is the last request sent, and no
\* backoff is slept after it.
C2_StatusErrorNotRetried ==
    \A i \in 1..Len(outs) :
        outs[i] = "status" =>
            /\ i = Len(outs)
            /\ requests = i
            /\ Len(slept) = i - 1
            /\ call.pc = "done"
            /\ call.ret = Raise("LLMServiceError", "returned error")

C2_Witness ==
    /\ outs = <<"timeout", "connect", "status">>
    /\ slept = <<2, 4>>
    /\ call.pc = "done"

(***************************************************************************)
(* Claims about the classifier (SpecEnrich)                                *)
(***************************************************************************)
CallRaised(t) == llm[t].pc = "done" /\ llm[t].ret.act = "raise"

CallReturned(t) == llm[t].pc = "done" /\ llm[t].ret.act = "return"

C4_ImportanceInVocabulary ==
    sub["importance"].state = "returned" =>
        /\ sub["importance"].val \in IMPORTANCE_LEVELS
        /\ CallRaised("importance") => sub["importance"].val = W_medium
        /\ (/\ CallReturned("importance")
            /\ NormalizeLabel(llm["importance"].ret.text) \notin IMPORTANCE_LEVELS)
              => sub["importance"].val = W_medium

C4_Witness ==
    /\ sub["importance"].state = "returned"
    /\ CallReturned("importance")
    /\ llm["importance"].ret.text = W_urgent
    /\ sub["importance"].val = W_medium

\* C5 as stated: the value classify_category returns is always in the
\* category vocabulary, and it is "professional" when the inference call
\* raised and when the text is out of vocabulary.
C5_DefaultIsProfessional ==
    sub["category"].state = "returned" =>
        /\ sub["category"].val \in CATEGORIES
        /\ CallRaised("category") => sub["category"].val = W_professional
        /\ (/\ CallReturned("category")
            /\ NormalizeLabel(llm["category"].ret.text) \notin CATEGORIES)
              => sub["category"].val = W_professional

\* C5 as amended: the value classify_category returns is always in the
\* category vocabulary of settings.CATEGORIES, and it is "professionnel" when
\* the inference call raised and when the normalised text is not in that
\* vocabulary (as the English "professional" is not).
C5_CategoryInVocabulary ==
    sub["category"].state = "returned" =>
        /\ sub["category"].val \in CATEGORIES
        /\ CallRaised("category") => sub["category"].val = W_professionnel
        /\ (/\ CallReturned("category")
            /\ NormalizeLabel(llm["category"].ret.text) \notin CATEGORIES)
              => sub["category"].val = W_professionnel

C5_Witness ==
    /\ sub["category"].state = "returned"
    /\ CallReturned("category")
    /\ llm["category"].ret.text = W_professional
    /\ sub["category"].val = W_professionnel

(***************************************************************************)
(* Claims about the reply drafts (SpecDrafts)                              *)
(***************************************************************************)
\* C6: when get_or_generate_responses is called for a stored message a second
\* time with no delete in between, both calls return a list of drafts, the
\* two lists are equal, and the second call issues no inference call and
\* saves no row.
C6_SecondCallReturnsSameDrafts ==
    (reply # None /\ reply[1].stored /\ reply[1].prev # None) =>
        /\ reply[1].outcome = "returned"
        /\ reply[1].prev[1].outcome = "returned"
        /\ reply[1].drafts = reply[1].prev[1].drafts
        /\ reply[1].llm_calls = 0
        /\ reply[1].saved = 0

(***************************************************************************)
(* Claims about the fetch-and-sync loop (SpecRace, SpecSync)               *)
(***************************************************************************)
OneRowPerIdentifier == \A e1, e2 \in emails : e1.id = e2.id => e1 = e2

\* a step in which handler s adds to its processed count
Counts(s) == sync'[s].processed_count > sync[s].processed_count

\* C7: the store never holds two Message rows with one provider identifier,
\* also when the provider lists an identifier twice and when two syncs run
\* at once; and a sync adds to its processed count only in a step that
\* inserts the row of an identifier that was not stored, so an identifier it
\* meets already stored adds zero.
C7_Deduplication ==
    /\ []OneRowPerIdentifier
    /\ [][\A s \in Syncs :
             Counts(s) =>
                /\ sync[s].current.id \notin StoredIds
                /\ emails' = emails \cup {EmailRow(sync[s].current)}
                /\ sync'[s].processed_count = sync[s].processed_count + 1]_vars

C7_Witness ==
    /\ sync["a"].pc = "check"
    /\ sync["a"].j > Len(sync["a"].emails_data)
    /\ sync["a"].emails_data = <<"m1", "m1">>
    /\ sync["a"].errors = <<"m1">>
    /\ sync["a"].skipped = 1
    /\ sync["a"].processed_count = 0
    /\ sync["b"].processed_count = 1
    /\ Cardinality(emails) = 1

\* the sync_history rows written by invocation number run
RowsOf(run) == SelectSeq(sync_history, LAMBDA row : row.run = run)

\* C8: when a sync over n listed messages, k of which failed to be fetched or
\* parsed, has ended, its audit row records fetched = n, processed = n - k
\* (none being already stored) and exactly k error strings.
C8_AuditCountsFailures ==
    \A s \in Syncs :
        (sync[s].pc = "done" /\ RowsOf(sync[s].run) # <<>>) =>
            LET row == RowsOf(sync[s].run)[1]
                n == sync[s].listed
                k == sync[s].failed
            IN  /\ row.emails_fetched = n
                /\ sync[s].skipped = 0 => row.emails_processed = n - k
                /\ Len(row.errors) = k

\* C9: every sync invocation that has ended, in success or in a provider
\* failure, has written exactly one sync_history row.
C9_ExactlyOneAuditRow ==
    \A s \in Syncs :
        sync[s].pc \in {"done", "failed"} => Len(RowsOf(sync[s].run)) = 1

CooldownOf(mode) ==
    IF mode = "recent" THEN RecentCooldown ELSE HistoricalCooldown

\* C10: when the provider has answered a list or get request with the
\* rate-limit signal, the sync is sleeping the cooldown of its mode (5 recent,
\* 10 historical), it has not been aborted, and the request it issues next is
\* that same request.
C10_RateLimitRetried ==
    \A s \in Syncs :
        sync[s].last.resp = "rate_limit" =>
            /\ sync[s].pc = "sleep"
            /\ sync[s].delay = CooldownOf(sync[s].mode)
            /\ NextRequest(sync[s]) =
                  [req |-> sync[s].last.req, target |-> sync[s].last.target]

(***************************************************************************)
(* Claims about the gateway's backoff and terminal errors (SpecGateway)    *)
(***************************************************************************)
\* the failures after which call_llm sleeps and tries again
Retryable == {"timeout", "connect", "unparseable", "other"}

\* call_llm has ended after three attempts that all failed retryably
Exhausted ==
    /\ call.pc = "done"
    /\ Len(outs) = 3
    /\ \A i \in 1..3 : outs[i] \in Retryable

\* C18 as stated: the delays slept between failed retryable attempts are
\* 2, 4, 8.
C18_DelaysTwoFourEight == Exhausted => slept = <<2, 4, 8>>

\* C18 as amended: the i-th delay slept is 2^i, at most two delays are slept
\* (one between each pair of consecutive attempts), and a call that exhausts
\* its three attempts has slept exactly 2, 4; no delay of 8 is ever slept.
C18_BackoffDoubles ==
    /\ Len(slept) <= 2
    /\ \A i \in 1..Len(slept) : slept[i] = Pow2(i)
    /\ Exhausted => slept = <<2, 4>>

C18_Witness == Exhausted /\ outs = <<"connect", "timeout", "other">>

\* C19 as stated: when all three attempts fail retryably, the error raised
\* is a timeout or connection error that names the configured timeout.
C19_TerminalNamesTimeout ==
    Exhausted =>
        /\ call.ret.act = "raise"
        /\ call.ret.cls \in {"LLMTimeoutError", "LLMConnectionError"}
        /\ NamesTimeout(call.ret)

\* C19 as amended: when all three attempts fail retryably, the error raised
\* is decided by the third failure alone: LLMTimeoutError naming the
\* configured timeout after a timeout, LLMConnectionError (which names no
\* timeout) after a connection failure, the plain LLMServiceError after any
\* other error.
C19_TerminalByLastFailure ==
    Exhausted =>
        /\ call.ret.act = "raise"
        /\ outs[3] = "timeout" =>
              (call.ret.cls = "LLMTimeoutError" /\ NamesTimeout(call.ret))
        /\ outs[3] = "connect" =>
              (call.ret.cls = "LLMConnectionError" /\ ~NamesTimeout(call.ret))
        /\ outs[3] \in {"unparseable", "other"} =>
              (call.ret.cls = "LLMServiceError" /\ ~NamesTimeout(call.ret))

C19_Witness ==
    /\ Exhausted
    /\ outs = <<"timeout", "timeout", "connect">>
    /\ call.ret.cls = "LLMConnectionError"

\* C20: a 2xx response whose payload lacks the expected fields or cannot be
\* parsed into the expected shape ends call_llm at once (it is the last
\* request, no backoff follows), with an error whose class is neither that of
\* the protocol rejection nor one of the terminal timeout/connection classes.
C20_MalformedNotRetried ==
    \A i \in 1..Len(outs) :
        outs[i] \in {"malformed", "unparseable"} =>
            /\ i = Len(outs)
            /\ call.pc = "done"
            /\ call.ret.act = "raise"
            /\ call.ret.cls \notin
                  {OnHTTPStatusError(i - 1).cls, "LLMTimeoutError",
                   "LLMConnectionError"}

(***************************************************************************)
(* Claims about concurrent syncs (SpecRace)                                *)
(***************************************************************************)
\* handler s is at db.create_email for an identifier that another sync has
\* stored since s found it absent
LosesRace(s) ==
    /\ sync[s].pc = "create"
    /\ sync[s].current.id \in StoredIds

\* C11: when a sync that passed the dedup check for an identifier attempts
\* to create it after another sync stored it, the store keeps exactly one row
\* for the identifier, and the losing sync adds no entry to its error list
\* and goes on with its next message.
C11_DuplicateKeyBenign ==
    [][\A s \in Syncs :
          (LosesRace(s) /\ sync'[s] # sync[s]) =>
             /\ emails' = emails
             /\ Cardinality({e \in emails' : e.id = sync[s].current.id}) = 1
             /\ sync'[s].errors = sync[s].errors
             /\ sync'[s].pc = "check"
             /\ sync'[s].j = sync[s].j + 1]_vars

(***************************************************************************)
(* Claims about termination (SpecSyncFair)                                 *)
(***************************************************************************)
\* C17: a sync invocation that has started eventually ends (returns or
\* raises), whatever the provider answers, a rate-limit signal on every
\* request included, given that each provider call ends and the mailbox has
\* at most MaxPages pages.
C17_SyncTerminates ==
    \A s \in Syncs : Running_(sync[s]) ~> ~Running_(sync[s])

(***************************************************************************)
(* Claims about reply generation (SpecDrafts) and revision (SpecImprove)   *)
(***************************************************************************)
\* the call that has just completed was for a stored message and found no
\* draft of it
FoundNoDraft == reply # None /\ reply[1].stored /\ reply[1].observed = 0

\* C13: two get_or_generate_responses calls for one stored message that both
\* find zero drafts (nothing serialises them) both go on to generate: each
\* issues its generation request, which is what makes the doubled set
\* reachable.
C13_BothGenerate ==
    (FoundNoDraft /\ reply[1].prev # None) =>
        /\ reply[1].llm_calls = 1
        /\ reply[1].prev[1].llm_calls = 1

\* C14: get_or_generate_responses for an identifier with no row in emails
\* raises the not-found error (ValueError), issues no inference call and
\* saves no draft, whatever the store holds.
C14_AbsentIsNotFound ==
    (reply # None /\ ~reply[1].stored) =>
        /\ reply[1].outcome = "raised"
        /\ reply[1].cls = "ValueError"
        /\ reply[1].llm_calls = 0
        /\ reply[1].saved = 0

\* C15: when the endpoint fails the generation request of a call for a
\* stored message without drafts (call_llm raises, or the content is not
\* JSON), the caller gets that error and the store still holds no draft of
\* the message.
C15_GenerationErrorPropagates ==
    (FoundNoDraft /\ ~generate_responses(reply[1].endpoint).ok) =>
        /\ reply[1].outcome = "raised"
        /\ reply[1].cls = generate_responses(reply[1].endpoint).cls
        /\ reply[1].llm_calls = 1
        /\ get_responses(reply[1].email_id) = <<>>

NoContent == email_data.body_text = "" /\ email_data.snippet = ""

Ended(t) == sub[t].state \in {"returned", "raised"}

\* what sub-derivation t ends in, computed from the message and from what
\* its own call_llm ended in, and from nothing else
OwnOutcome(t) ==
    IF t = "summary" /\ NoContent
    THEN Returned(None)
    ELSE Derive(t, llm[t].ret)

C25_SummarySkipOrOneCall ==
    /\ NoContent =>
          /\ llm["summary"] = IdleFrame
          /\ sub["summary"] \in {Pending, Returned(None)}
    /\ (~NoContent /\ sub["summary"].state = "running") =>
          llm["summary"].pc \in {"post", "sleep"}
    /\ (~NoContent /\ Ended("summary")) =>
          /\ llm["summary"].pc = "done"
          /\ sub["summary"].state = "returned"
          /\ CallRaised("summary") => sub["summary"].val = None

C25_Witness ==
    /\ email_data = [body_text |-> "", snippet |-> "snip"]
    /\ CallRaised("summary")
    /\ llm["summary"].attempt = 2
    /\ llm["summary"].ret.cls = "LLMTimeoutError"
    /\ sub["summary"] = Returned(None)

(***************************************************************************)
(* Claims about the dedup check of the sync loop (SpecRace)                *)
(***************************************************************************)
\* handler s is at the dedup check of a message whose identifier is stored
MeetsStored(s) ==
    /\ sync[s].pc = "check"
    /\ sync[s].j <= Len(sync[s].emails_data)
    /\ sync[s].emails_data[sync[s].j] \in StoredIds

\* C22: a sync that finds the identifier of a message stored goes on to the
\* next message without classifying it, without counting it and without
\* touching the store; and no step of a sync changes or removes a stored
\* row.
C22_StoredMessageSkipped ==
    /\ [][emails \subseteq emails']_vars
    /\ [][\A s \in Syncs :
             (MeetsStored(s) /\ sync'[s] # sync[s]) =>
                /\ sync'[s].pc = "check"
                /\ sync'[s].j = sync[s].j + 1
                /\ sync'[s].processed_count = sync[s].processed_count
                /\ sync'[s].errors = sync[s].errors
                /\ emails' = emails]_vars

C22_Witness ==
    /\ sync["a"].pc = "check"
    /\ sync["a"].classify
    /\ sync["a"].emails_data = <<"m1", "m2">>
    /\ sync["a"].j = 2
    /\ sync["a"].skipped = 1
    /\ sync["a"].processed_count = 0
    /\ emails = {EmailRow(PlainMessage("m1"))}

(***************************************************************************)
(* Claims about a successful generation (SpecDrafts)                       *)
(***************************************************************************)
\* C26: when the endpoint answers the generation request of a call for a
\* stored message without drafts with a JSON object, the call saves and
\* returns three drafts, numbered 1, 2, 3 with the tones formal, casual,
\* neutral in that order.
C26_ThreeDraftsInToneOrder ==
    (FoundNoDraft /\ generate_responses(reply[1].endpoint).ok) =>
        /\ reply[1].outcome = "returned"
        /\ reply[1].saved = 3
        /\ Len(reply[1].drafts) = 3
        /\ \A i \in 1..3 :
              /\ reply[1].drafts[i].variant_number = i
              /\ reply[1].drafts[i].tone = TONES[i]

(***************************************************************************)
(* Claims about the text helpers (SpecText)                                *)
(***************************************************************************)
\* C23: truncate_for_context returns the text unchanged when its estimated
\* token count is within the budget; otherwise the result is shorter than
\* the text, ends with the marker, and has a strictly smaller estimated
\* token count than the text.
C23_TruncationShortens ==
    applied.fn = "truncate_for_context" =>
        LET out == applied.out[1]
        IN  IF estimate_tokens(applied.text) <= applied.max_tokens
            THEN out = applied.text
            ELSE /\ Len(out) < Len(applied.text)
                 /\ EndsWith(out, TruncationMarker)
                 /\ estimate_tokens(out) < estimate_tokens(applied.text)

JsonHelpers == {"_parse_response_json", "call_llm_json"}

\* helper fn applied to a text the model returned
Extracted(fn, text) ==
    IF fn = "_parse_response_json"
    THEN _parse_response_json(text)
    ELSE call_llm_json(Return(text))

\* the error of a text that holds no JSON
InvalidOutput(fn) ==
    IF fn = "_parse_response_json" THEN "JSONDecodeError" ELSE "LLMServiceError"

\* C24: both JSON helpers give for a fenced text, with or without the json
\* tag, what they give for the text between the fences; they extract the
\* object from prose around one {...} block; and they raise the invalid
\* output error when neither the text nor its first-"{"-to-last-"}" part
\* is JSON.
C24_FencedAndProseExtracted ==
    (applied.fn \in JsonHelpers /\ applied.out[1].cls # "LLMTimeoutError") =>
        /\ \A c \in Cores :
              applied.text \in {Fenced(c), FencedBare(c)} =>
                  applied.out[1] = Extracted(applied.fn, c)
        /\ \A p, q \in Prose :
              applied.text = p \o <<"{", "}">> \o q => applied.out[1].ok
        /\ \A p, q \in Prose, c \in {<<"o", "k">>, <<"{">>, <<"}", "{">>} :
              applied.text = p \o c \o q =>
                  /\ ~applied.out[1].ok
                  /\ applied.out[1].cls = InvalidOutput(applied.fn)

\* the length of a body without the marker truncate_for_context appended
PlacedLen(body) ==
    IF EndsWith(body, TruncationMarker)
    THEN Len(body) - Len(TruncationMarker)
    ELSE Len(body)

\* C27: the body in the importance/category prompt is at most 5000
\* characters long and the body in the summary prompt at most 8000, the
\* marker not counted.
C27_PromptBodyBounded ==
    /\ applied.fn = "_build_classification_prompt" =>
          PlacedLen(applied.out[1]) <= 5000
    /\ applied.fn = "_build_summary_prompt" =>
          PlacedLen(applied.out[1]) <= 8000

(***************************************************************************)
(* Claims about the provider throttle (SpecThrottle)                       *)
(***************************************************************************)
\* C28: a provider request (list, get, send, modify) starts only out of
\* _rate_limit, and it starts at least the minimum delay (100 ms) after the
\* end of the provider request before it.
C28_DelayFromPreviousEnd ==
    \A t \in Threads :
        (throttle.threads[t].pc = "request"
            /\ throttle.threads[t].prev_end # None) =>
                throttle.threads[t].start - throttle.threads[t].prev_end[1]
                    >= RateLimitDelay

(***************************************************************************)
(* Claims about paging (SpecSync)                                          *)
(***************************************************************************)
\* handler s takes a step
Stepped(s) == sync'[s] # sync[s]

\* handler s is about to send a list request, at once or after its sleep
AboutToList(s) == NextRequest(sync[s]).req = "list"

\* the token the provider returned with the last page handler s received
TokenOfLastPage(s) ==
    IF sync[s].pages = 0 THEN "" ELSE PageToken(sync[s].pages)

\* every list request of a recent sync is its first request and carries no
\* token, and a recent sync never comes back to listing
RecentListsOnce ==
    /\ [](\A s \in Syncs :
             (sync[s].mode = "recent" /\ AboutToList(s)) =>
                 /\ sync[s].pc = "list"
                 /\ sync[s].page_token = ""
                 /\ sync[s].pages = 0
                 /\ sync[s].listed = 0)
    /\ [][\A s \in Syncs :
             (sync[s].mode = "recent" /\ sync[s].pc = "list" /\ Stepped(s)) =>
                 /\ sync'[s].last.req = "list"
                 /\ sync'[s].pc \in {"get", "check", "failed"}]_vars

\* every list request of a historical sync carries the token of the page
\* received before it
HistoricalCarriesToken ==
    [](\A s \in Syncs :
          (sync[s].mode = "historical" /\ AboutToList(s)) =>
              sync[s].page_token = TokenOfLastPage(s))

\* after the last message of a page a historical sync lists again when the
\* page came with a token and returns when it did not; it returns from
\* nowhere else but an empty page
HistoricalStops ==
    [][\A s \in Syncs :
          (sync[s].mode = "historical" /\ Stepped(s)) =>
              /\ (sync[s].pc = "get" /\ sync[s].i = Len(sync[s].messages)) =>
                    IF sync[s].next_token # ""
                    THEN /\ sync'[s].pc = "list"
                         /\ sync'[s].page_token = sync[s].next_token
                    ELSE sync'[s].pc = "check"
              /\ (sync[s].pc \in {"list", "get", "sleep"}
                    /\ sync'[s].pc = "check") =>
                    \/ /\ sync[s].pc = "list"
                       /\ sync'[s].last.resp = "ok"
                       /\ sync'[s].listed = sync[s].listed
                    \/ /\ sync[s].pc = "get"
                       /\ sync[s].i = Len(sync[s].messages)
                       /\ sync[s].next_token = ""]_vars

\* the messages of a page are requested one by one in page order, and when
\* the gmail_service call has returned, every listed message was fetched or
\* had its one request fail
EachIdentifierOnce ==
    /\ [][\A s \in Syncs :
             (sync[s].pc = "get" /\ Stepped(s)) =>
                 /\ sync'[s].last.req = "get"
                 /\ sync'[s].last.target = sync[s].messages[sync[s].i]
                 /\ sync[s].i < Len(sync[s].messages) =>
                       /\ NextRequest(sync'[s]).req = "get"
                       /\ sync'[s].messages = sync[s].messages
                       /\ sync'[s].i = sync[s].i + 1]_vars
    /\ [](\A s \in Syncs :
             sync[s].pc = "check" =>
                 Len(sync[s].emails_data) + sync[s].failed = sync[s].listed)

\* C29: a recent sync sends one list request, without a token, and never
\* follows the token of its page; a historical sync sends each list request
\* with the token of the page before, goes on while pages are not empty and
\* come with a token, and stops at the first page that is empty or has
\* none; every identifier of every page is requested once.
C29_Paging ==
    /\ RecentListsOnce
    /\ HistoricalCarriesToken
    /\ HistoricalStops
    /\ EachIdentifierOnce

C29_Witness ==
    /\ sync["a"].mode = "historical"
    /\ sync["a"].pc = "get"
    /\ sync["a"].pages = 2
    /\ sync["a"].last = [req |-> "list", target |-> "t1", resp |-> "ok",
                         more |-> FALSE]
    /\ sync["a"].listed = 4
    /\ Len(sync["a"].emails_data) = 1
    /\ sync["a"].failed = 1

(***************************************************************************)
(* Claims about classify_email in a loop (SpecBatch)                       *)
(***************************************************************************)
\* the inference calls in flight: message position and sub-derivation
InFlight ==
    {<<i, t>> \in (1..Len(batch.emails)) \X Tasks : batch.subs[i][t] = Running}

AtMessage(s) == sync[s].emails_data[sync[s].j]

\* a step in which the gmail_service call of handler s adds a parsed message
Fetches(s) == Len(sync'[s].emails_data) = Len(sync[s].emails_data) + 1

\* C31: in a sync invocation a message joins emails_data only in the step
\* where its get request and parse succeeded; while the provider is being
\* read nothing is stored; the loop starts enriching a message only out of
\* its dedup check, with classify on and the message found absent; it starts
\* persisting it only out of its dedup check with classify off or out of
\* its enrichment; the store changes only in the persist step of the
\* message the loop is at; and the audit row is written only after the last
\* message, as the step that ends the invocation.
C31_StepOrder ==
    [][LET f == sync["a"]
           g == sync'["a"]
       IN  /\ Fetches("a") =>
                  /\ f.pc = "get"
                  /\ g.last = [req |-> "get", target |-> f.messages[f.i],
                               resp |-> "ok", more |-> FALSE]
                  /\ g.emails_data = Append(f.emails_data, f.messages[f.i])
           /\ f.pc \in {"list", "get", "sleep"} =>
                  emails' = emails /\ sync_history' = sync_history
           /\ (g.pc = "classify" /\ f.pc # "classify") =>
                  /\ f.pc = "check"
                  /\ f.classify
                  /\ AtMessage("a") \notin StoredIds
                  /\ g.current = PlainMessage(AtMessage("a"))
           /\ (g.pc = "create" /\ f.pc # "create") =>
                  \/ /\ f.pc = "check"
                     /\ ~f.classify
                     /\ AtMessage("a") \notin StoredIds
                     /\ g.current = PlainMessage(AtMessage("a"))
                  \/ /\ f.pc = "classify"
                     /\ g.current.id = AtMessage("a")
                     /\ g.current.importance # None
                     /\ g.current.category # None
           /\ emails' # emails =>
                  /\ f.pc = "create"
                  /\ f.current.id = AtMessage("a")
                  /\ f.classify => f.current.importance # None
                  /\ emails' = emails \cup {EmailRow(f.current)}
                  /\ g.j = f.j + 1
           /\ sync_history' # sync_history =>
                  /\ f.pc = "check"
                  /\ f.j > Len(f.emails_data)
                  /\ g.pc = "done"
                  /\ emails' = emails
           /\ f.pc = "done" => emails' = emails /\ sync_history' = sync_history
      ]_vars

C31_Witness ==
    /\ sync["a"].pc = "done"
    /\ sync["a"].mode = "historical"
    /\ sync["a"].listed = 2
    /\ Len(sync_history) = 1
    /\ sync_history[1].emails_processed = 2
    /\ \A e \in emails : e.importance # None
    /\ Cardinality(emails) = 2

(***************************************************************************)
(* Claims about label extraction (SpecLabel)                               *)
(***************************************************************************)
RECURSIVE RStripPunctuation(_)
\* the text without its trailing periods and commas
RStripPunctuation(s) ==
    IF s # <<>> /\ s[Len(s)] \in {".", ","}
    THEN RStripPunctuation(SubSeq(s, 1, Len(s) - 1))
    ELSE s

\* the text up to letter case, surrounding whitespace and trailing periods
\* and commas
UpToCaseSpaceAndTrailing(s) == Lower(RStripPunctuation(Strip(s)))

AllowedFor(fn) ==
    IF fn = "classify_importance" THEN IMPORTANCE_LEVELS ELSE CATEGORIES

FallbackFor(fn) ==
    IF fn = "classify_importance" THEN W_medium ELSE W_professionnel

\* C32: label extraction raises for no text; it returns the allowed label
\* when the text equals one up to letter case, surrounding whitespace and
\* trailing periods and commas, and the fallback for every other text.
C32_LabelOrFallback ==
    applied.fn \in {"classify_importance", "classify_category"} =>
        /\ applied.out[1].state = "returned"
        /\ applied.out[1].val =
              IF UpToCaseSpaceAndTrailing(applied.text) \in AllowedFor(applied.fn)
              THEN UpToCaseSpaceAndTrailing(applied.text)
              ELSE FallbackFor(applied.fn)

(***************************************************************************)
(* Claims about the enrichment fields of stored messages (SpecRace)        *)
(***************************************************************************)
\* a row with none of the three enrichment fields
Unenriched(id) ==
    [id |-> id, importance |-> <<>>, category |-> <<>>, ai_summary |-> <<>>,
     status |-> "unread"]

\* a step in which handler s inserts a row
Inserts(s) == sync[s].pc = "create" /\ sync'[s].pc = "check" /\ emails' # emails

\* C33: a row gets an enrichment field only from the message a handler
\* holds after classify_email returned for it in that invocation: the
\* message a handler is about to enrich or, with classify off, to persist
\* has none of the three; a handler with classify off inserts rows with the
\* three fields absent; and every stored row, enriched or not, is returned
\* by get_email and by list_emails without filters.
C33_EnrichmentOnlyFromEnrich ==
    /\ [](\A s \in Syncs :
             (sync[s].pc = "classify" \/ (sync[s].pc = "create" /\ ~sync[s].classify))
                => EmailRow(sync[s].current) = Unenriched(sync[s].current.id))
    /\ [][\A s \in Syncs :
             /\ Inserts(s) =>
                   /\ emails' = emails \cup {EmailRow(sync[s].current)}
                   /\ ~sync[s].classify =>
                         emails' = emails \cup {Unenriched(sync[s].current.id)}
             /\ (sync'[s].current # sync[s].current /\ sync[s].pc # "classify")
                   => EmailRow(sync'[s].current) = Unenriched(sync'[s].current.id)
             /\ (\A o \in Syncs : ~Inserts(o)) => emails' = emails]_vars
    /\ [](\A e \in emails :
             /\ get_email(e.id) = Some(AsDict(e))
             /\ AsDict(e) \in list_emails("", <<>>, <<>>))

C33_Witness ==
    /\ emails = {Unenriched("m1"),
                 [Unenriched("m2") EXCEPT !.importance = W_high,
                                          !.category = W_urgent,
                                          !.ai_summary = Some(W_low)]}
    /\ sync["a"].pc = "done"
    /\ sync["b"].pc = "done"
    /\ list_emails("", W_high, <<>>) # {}

(***************************************************************************)
(* Claims about sender-name derivation (SpecSender)                        *)
(***************************************************************************)
\* the service label of the first automated-sender pattern the address of
\* sender h falls under, <<>> when it falls under none
LabelOf(h) ==
    LET l == Lower(h.local)
    IN  IF h.domain = <<"m", "e", "d", "i", "u", "m", ".", "c", "o", "m">> THEN <<"M", "e", "d", "i", "u", "m">>
        ELSE IF h.domain = <<"g", "i", "t", "h", "u", "b", ".", "c", "o", "m">>
                /\ l \in {<<"n", "o", "t", "i", "f", "i", "c", "a", "t", "i", "o", "n", "s">>, <<"n", "o", "r", "e", "p", "l", "y">>}
        THEN <<"G", "i", "t", "H", "u", "b">>
        ELSE IF h.domain = <<"l", "i", "n", "k", "e", "d", "i", "n", ".", "c", "o", "m">> THEN <<"L", "i", "n", "k", "e", "d", "I", "n">>
        ELSE IF l \in {<<"d", "i", "g", "e", "s", "t">>, <<"n", "e", "w", "s", "l", "e", "t", "t", "e", "r">>}
        THEN <<"N", "e", "w", "s", "l", "e", "t", "t", "e", "r">>
        ELSE IF l = <<"u", "p", "d", "a", "t", "e", "s">> THEN <<"U", "p", "d", "a", "t", "e", "s">>
        ELSE IF l = <<"n", "o", "r", "e", "p", "l", "y">> THEN <<"S", "e", "r", "v", "i", "c", "e">>
        ELSE <<>>

\* the header carries its address in angle brackets and the address falls
\* under an automated-sender pattern
Automated(h) == h.shape # "bare" /\ LabelOf(h) # <<>>

\* the greeting of body g lies within the first 500 characters
GreetingInWindow(g) ==
    /\ g.kind \notin {"none", "lower"}
    /\ g.pad + Len(GreetingText(g.kind)) <= BodyWindow

\* the name the annotation carries: that of the first greeting pattern, in
\* the order Stories for, Hi, Dear, Hello, whose name is shorter than 50
\* characters; <<>> when there is none
AnnotationOf(g) ==
    IF ~GreetingInWindow(g) THEN <<>>
    ELSE IF g.kind \in {"hi", "dear", "hello", "stories_long_then_hi"}
    THEN <<"B", "o", "b">>
    ELSE IF g.kind \in {"stories", "hi_then_stories"} THEN <<"A", "n", "n", " ", "L", "e", "e">>
    ELSE <<>>

Annotated(label, name) == label \o <<" ", "(">> \o name \o <<")">>

C35_FailedPageStoresNothing ==
    [][LET f == sync["a"]
           g == sync'["a"]
       IN  f.mode = "historical" =>
              /\ f.pc \in {"list", "get", "sleep", "failed"} =>
                    emails' = emails /\ sync_history' = sync_history
              /\ (f.pc = "list" /\ g.run = f.run
                     /\ g.last.req = "list"
                     /\ g.last.resp \in {"http_error", "error"}) =>
                    /\ g.pc = "failed"
                    /\ g.processed_count = 0
              /\ (f.pc = "failed" /\ g.run = f.run) => g = f
      ]_vars

C35_Witness ==
    /\ sync["a"].mode = "historical"
    /\ sync["a"].pc = "failed"
    /\ sync["a"].pages = 1
    /\ sync["a"].last = [req |-> "list", target |-> "t1", resp |-> "http_error",
                         more |-> FALSE]
    /\ Len(sync["a"].emails_data) = 2
    /\ emails = {}
    /\ sync_history = <<>>

(***************************************************************************)
(* Claims about drafts after an invalidation (SpecDrafts)                  *)
(***************************************************************************)
\* the step is delete_unsent_responses(m)
DeletesUnsent(m) ==
    /\ emails' = emails
    /\ reply' = None
    /\ served' = [served EXCEPT ![m] = None]
    /\ responses' =
          SelectSeq(responses, LAMBDA r : ~(r.email_id = m /\ ~r.sent))

\* the sent drafts of m, as the caller gets them
SentDraftsOf(m) ==
    LET rows == SelectSeq(responses, LAMBDA r : r.email_id = m /\ r.sent)
    IN  [i \in 1..Len(rows) |->
            [id |-> rows[i].id, variant_number |-> rows[i].variant_number,
             tone |-> rows[i].tone, sent |-> TRUE]]

\* C36: in the state delete_unsent_responses(m) leaves, a call of
\* get_or_generate_responses for a stored message m returns the sent drafts
\* of m without a generation request when there are any, and issues a
\* generation request when there is none.
C36_AfterDeleteUnsent ==
    [][\A m \in MessageIds :
          (DeletesUnsent(m) /\ m \in StoredIds) =>
              \A r \in CallResults :
                  LET res == get_or_generate_responses(m, r)'
                      sent == SentDraftsOf(m)'
                  IN  /\ sent # <<>> =>
                            /\ res.outcome = "returned"
                            /\ res.drafts = sent
                            /\ res.llm_calls = 0
                      /\ sent = <<>> => res.llm_calls = 1
      ]_vars

(***************************************************************************)
(* Claims about exhausted attempts of mixed kinds (SpecGateway)            *)
(***************************************************************************)
\* the three failures are not all of one kind
MixedKinds == Cardinality({outs[i] : i \in 1..Len(outs)}) > 1

\* C37: when call_llm has ended after three retryable failures of mixed
\* kinds, it raised LLMTimeoutError exactly when the third attempt timed
\* out, LLMConnectionError exactly when the third attempt failed to connect,
\* and the plain LLMServiceError otherwise, whatever the first two were.
C37_TerminalKindByThirdAttempt ==
    (Exhausted /\ MixedKinds) =>
        /\ call.ret.act = "raise"
        /\ call.ret.cls = "LLMTimeoutError" <=> outs[3] = "timeout"
        /\ call.ret.cls = "LLMConnectionError" <=> outs[3] = "connect"
        /\ call.ret.cls = "LLMServiceError" <=> outs[3] \notin {"timeout", "connect"}

C37_Witness ==
    /\ Exhausted
    /\ outs = <<"connect", "timeout", "other">>
    /\ call.ret.cls = "LLMServiceError"
    /\ slept = <<2, 4>>

(***************************************************************************)
(* Claims about the counts of an audit row (SpecRace)                      *)
(***************************************************************************)
RECURSIVE TotalProcessed(_)
\* the sum of emails_processed over audit rows
TotalProcessed(rows) ==
    IF rows = <<>> THEN 0
    ELSE Head(rows).emails_processed + TotalProcessed(Tail(rows))

\* a step in which handler s writes its audit row
WritesAudit(s) == sync[s].pc = "check" /\ sync'[s].pc = "done"

\* C38: in every audit row, processed plus the number of error strings is
\* at most fetched; the row records the counts the loop of its invocation
\* ended with; a handler adds one to its processed count exactly in the
\* steps in which it adds a row to the store; so the rows of the store are
\* as many as the processed counts of all audit rows and running handlers
\* together.
C38_AuditCounts ==
    /\ [](\A n \in 1..Len(sync_history) :
             sync_history[n].emails_processed + Len(sync_history[n].errors)
                <= sync_history[n].emails_fetched)
    /\ [](Cardinality(emails) =
             TotalProcessed(sync_history)
                + sync["a"].processed_count + sync["b"].processed_count)
    /\ [][\A s \in Syncs :
             /\ WritesAudit(s) =>
                   sync_history' =
                      Append(sync_history,
                             [run |-> sync[s].run,
                              emails_fetched |-> Len(sync[s].emails_data),
                              emails_processed |-> sync[s].processed_count,
                              errors |-> sync[s].errors])
             /\ (sync[s].pc = "create" /\ sync'[s].pc = "check") =>
                   (Cardinality(emails') = Cardinality(emails) + 1
                      <=> sync'[s].processed_count = sync[s].processed_count + 1)
      ]_vars

C38_Witness ==
    /\ Len(sync_history) = 2
    /\ sync_history[1] = [run |-> 2, emails_fetched |-> 2,
                          emails_processed |-> 0, errors |-> <<"m1">>]
    /\ sync_history[2] = [run |-> 1, emails_fetched |-> 2,
                          emails_processed |-> 2, errors |-> <<>>]
    /\ Cardinality(emails) = 2

(***************************************************************************)
(* Claims about the send operation (SpecSend)                              *)
(***************************************************************************)
\* a step that turns the stored status of message id from unread to read
BecomesRead(id) ==
    /\ \E e \in emails : e.id = id /\ e.status = "unread"
    /\ \E e \in emails' : e.id = id /\ e.status = "read"

\* C39: the handler reaches mark-read only with the provider send done, and
\* the status update only after mark-read returned; a stored message turns
\* from unread to read only in the update step of a request for it whose
\* send succeeded; a request whose send failed ends without the update; and
\* after mark-read, failed or not, the update is the next step and leaves
\* the message read.
C39_SendThenMarkThenUpdate ==
    /\ [](sending.pc \in {"mark", "update"} => sending.sent_id # <<>>)
    /\ [](sending.pc = "update" => sending.marked # <<>>)
    /\ [](sending.pc = "send" => (sending.sent_id = <<>> /\ sending.marked = <<>>))
    /\ [][/\ \A id \in MessageIds :
                (BecomesRead(id) =>
                   (/\ sending.pc = "update"
                    /\ sending.email_id = id
                    /\ sending.sent_id # <<>>))
           /\ ((sending.pc = "send" /\ sending'.pc = "done") =>
                   (/\ sending'.status = 500
                    /\ emails' = emails))
           /\ ((sending.pc = "mark" /\ sending' # sending) =>
                   (/\ sending'.pc = "update"
                    /\ emails' = emails))
           /\ ((sending.pc = "update" /\ sending' # sending) =>
                   (/\ sending'.status = 200
                    /\ \E e \in emails' :
                          e.id = sending.email_id /\ e.status = "read"))
      ]_vars

C39_Witness ==
    /\ sending.pc = "done"
    /\ sending.status = 200
    /\ sending.marked = Some(FALSE)
    /\ sending.n = 2
    /\ \E e \in emails : e.id = sending.email_id /\ e.status = "read"

====
